---- MODULE Spec2Model ----
(***************************************************************************)
(* A model of the lrutrack repository: the LRU-Tracker (lrutrack.c) and    *)
(* the two sized LRU caches of slru.c, the one with an LRU list of buckets *)
(* (first half) and the one with a timestamp in each item (second half).   *)
(* Every structure is the one the C code keeps: the bucket table, the LRU  *)
(* link array, the item arena with its free list, and the blocks obtained  *)
(* from the caller's allocator.                                            *)
(***************************************************************************)
EXTENDS Integers, Sequences, FiniteSets, TLC

(***************************************************************************)
(* 32-bit unsigned arithmetic.  A uint32_t is written as its four bytes,   *)
(* least significant first, so that multiplication modulo 2^32, xor and    *)
(* shifts are computed exactly.                                            *)
(***************************************************************************)
Bit(a, i) == (a \div (2^i)) % 2

\* a ^ b for two bytes
XorByte(a, b) ==
    LET x(i) == ((Bit(a, i) + Bit(b, i)) % 2) * (2^i)
    IN  x(0) + x(1) + x(2) + x(3) + x(4) + x(5) + x(6) + x(7)

Pow2(n) == 2^n

U32(b0, b1, b2, b3) == <<b0, b1, b2, b3>>

U32OfSmall(n) == U32(n % 256, (n \div 256) % 256, (n \div 65536) % 256, 0)

U32Xor(a, b) == [i \in 1..4 |-> XorByte(a[i], b[i])]

Limb(a, i) == IF i \in 1..4 THEN a[i] ELSE 0

\* a >> s for 0 <= s < 32
U32Shr(a, s) ==
    LET q == s \div 8
        r == s % 8
    IN  [i \in 1..4 |->
            (Limb(a, i + q) \div Pow2(r)) + ((Limb(a, i + q + 1) % Pow2(r)) * Pow2(8 - r))]

\* a << s for s a multiple of 8
U32ShlBytes(a, q) == [i \in 1..4 |-> Limb(a, i - q)]

\* a * b modulo 2^32
U32Mul(a, b) ==
    LET t1 == a[1] * b[1]
        t2 == a[1] * b[2] + a[2] * b[1] + (t1 \div 256)
        t3 == a[1] * b[3] + a[2] * b[2] + a[3] * b[1] + (t2 \div 256)
        t4 == a[1] * b[4] + a[2] * b[3] + a[3] * b[2] + a[4] * b[1] + (t3 \div 256)
    IN  U32(t1 % 256, t2 % 256, t3 % 256, t4 % 256)

\* a & (n - 1) for a power of two n <= 256
U32MaskSmall(a, n) == a[1] % n

lrutrack_is_power_of_two(x) == x > 0 /\ \E e \in 0..8 : x = Pow2(e)

MurmurM == U32(149, 233, 209, 91)      \* 0x5bd1e995
MurmurR == 24

RECURSIVE MurmurBody(_, _)
\* the while (len >= 4) loop: h after mixing the leading 4-byte words of data
MurmurBody(h, data) ==
    IF Len(data) < 4 THEN h
    ELSE LET k0 == U32(data[1], data[2], data[3], data[4])
             k1 == U32Mul(k0, MurmurM)
             k2 == U32Xor(k1, U32Shr(k1, MurmurR))
             k3 == U32Mul(k2, MurmurM)
         IN  MurmurBody(U32Xor(U32Mul(h, MurmurM), k3), SubSeq(data, 5, Len(data)))

\* the switch on the remaining 0..3 bytes, with its fall-through
MurmurTail(h, data) ==
    LET n  == Len(data) % 4
        d  == SubSeq(data, Len(data) - n + 1, Len(data))
        h3 == IF n = 3 THEN U32Xor(h, U32ShlBytes(U32OfSmall(d[3]), 2)) ELSE h
        h2 == IF n >= 2 THEN U32Xor(h3, U32ShlBytes(U32OfSmall(d[2]), 1)) ELSE h3
    IN  IF n >= 1 THEN U32Mul(U32Xor(h2, U32OfSmall(d[1])), MurmurM) ELSE h2

lrutrack_hash(key, seed, hash_table_size) ==
    LET h0 == U32Xor(seed, U32OfSmall(Len(key)))
        h1 == MurmurTail(MurmurBody(h0, key), key)
        h2 == U32Xor(h1, U32Shr(h1, 13))
        h3 == U32Mul(h2, MurmurM)
        h4 == U32Xor(h3, U32Shr(h3, 15))
    IN  U32MaskSmall(h4, hash_table_size)

(***************************************************************************)
(* Program constants and the parameters the model creates the caches with. *)
(***************************************************************************)
UINT32_MAX == -1            \* the all-ones index "none", written as its signed value
NULL == 0

LRUTRACK_OK == 0
LRUTRACK_ERROR == 1
LRUTRACK_OOM == 2
LRUTRACK_NOT_FOUND == 3

HASH_SEED == U32(190, 186, 254, 202)   \* 0xcafebabe
INVALID_VALUE == 0
HASH_TABLE_SIZE == 4

\* the keys "123", "345", "234", "456" of the test program
Keys == { <<49, 50, 51>>, <<51, 52, 53>>, <<50, 51, 52>>, <<52, 53, 54>> }

MaxAlt == 1
MaxInitialItems == 1
MaxFailures == 1
MaxPastAssert == 1
MaxStamp == 5
MaxLead == 1

\* cache_size of slru_create, and the consumptions a client asks for: one
\* unit, the whole cache, and more than the cache has
CACHE_SIZE == 3
Consumptions == { 1, CACHE_SIZE, CACHE_SIZE + 1 }

\* the values a client stores: the test stores 123 under "123"; here the key
\* with first byte '1'..'4' stores 10, 20, 30, 40, and "123" also 11..10+MaxAlt
ValuesFor(k) == { 10 * (k[1] - 48) + d : d \in 0..(IF k[1] = 49 THEN MaxAlt ELSE 0) }

\* lrutrack_hash of the model's keys under the seeds a cache of the model has
\* (the tracker the seed it is created with, slru_t the 0 of its memset) and
\* the model's table size, computed once; hash_of reads it from that table
\* (no cache of the model has another size: the CHOOSE has no value if one had)
Seeds == { HASH_SEED, U32(0, 0, 0, 0) }

HashTable == [s \in Seeds |-> [k \in Keys |-> lrutrack_hash(k, s, HASH_TABLE_SIZE)]]

hash_of(key, seed, hash_table_size) ==
    CHOOSE h \in {HashTable[seed][key]} : hash_table_size = HASH_TABLE_SIZE

\* the value stored under k in an slru_t
SlruValue(k) == 10 * (k[1] - 48)

Values == UNION { ValuesFor(k) : k \in Keys }
Buckets == 0..(HASH_TABLE_SIZE - 1)

\* What a read of memory the program never wrote can give.  The arena that an
\* insert allocates is read before it is written: each of its slots holds
\* zeroes, or (from slot `from` on) a value that is not the free sentinel
\* and a pointer that no malloc_func returned.
JunkValue == 99
WildPtr == -2
ZeroPattern == [value |-> INVALID_VALUE, key |-> NULL, from |-> 0]
JunkPatterns ==
    { ZeroPattern,
      [value |-> INVALID_VALUE, key |-> WildPtr, from |-> 0],
      [value |-> JunkValue, key |-> WildPtr, from |-> 0],
      [value |-> JunkValue, key |-> WildPtr, from |-> 1] }

Arr(n, v) == [i \in 0..(n - 1) |-> v]

VARIABLES
    t,          \* the lrutrack_t handle and the arrays it owns
    slru,       \* the slru_t handle and the arrays it owns
    live,       \* blocks obtained from malloc_func and not yet given to free_func
    bad_free,   \* free_func was called with a non-null pointer that is not live
    owed,       \* values stored by a successful insert and not yet given to evict_func
    bad_evict,  \* evict_func was called with a value that was not owed
    phase,      \* "none" before create, "live", "destroyed"
    fault,      \* "none", or how the program stopped: "assert", "segv", "oob"
    fail_budget,\* how many more times malloc_func may return null
    past_assert,\* 0, or the number of calls since the first call that went past a
                \* false assert: such a run is a run of an NDEBUG build only
    map,        \* reference: key -> value of a key-value map
    order       \* reference: the non-empty buckets, most recently accessed first

vars == <<t, slru, live, bad_free, owed, bad_evict, phase, fault, fail_budget, past_assert, map, order>>

(***************************************************************************)
(* The caller's allocator (malloc_wrapper / free_wrapper of the test) and  *)
(* the execution context a call runs in.                                   *)
(***************************************************************************)
Ctx(tt, failAt, junk, wild) ==
    [t |-> tt, live |-> live, bad_free |-> bad_free, evicted |-> <<>>,
     nmalloc |-> 0, nfree |-> 0, failAt |-> failAt, junk |-> junk, wild |-> wild,
     fault |-> "none", passed |-> FALSE, ptr |-> NULL]

\* The address malloc_func returns: any address that is not live will do, the
\* code never compares addresses.  The model's allocator returns the address
\* `want` when it is not live and the lowest address above the wanted ones
\* otherwise, so that equal structures get equal addresses.
HANDLE_AT == 1
TABLE_AT == 2
LINKS_AT == 3
ARENA_AT == 4
KEY_AT == 6
SPARE_AT == 30

RECURSIVE LowestFree(_, _)
LowestFree(lv, a) == IF a \notin lv THEN a ELSE LowestFree(lv, a + 1)

FreshBlock(m, want) == IF want \notin m.live THEN want ELSE LowestFree(m.live, SPARE_AT)

\* malloc_func: m.ptr is the block, or NULL when this is the call that fails
malloc_func(m, want) ==
    IF m.nmalloc + 1 = m.failAt
    THEN [m EXCEPT !.nmalloc = @ + 1, !.ptr = NULL]
    ELSE [m EXCEPT !.nmalloc = @ + 1, !.ptr = FreshBlock(m, want), !.live = @ \cup {FreshBlock(m, want)}]

free_func(m, p) ==
    IF p = NULL THEN [m EXCEPT !.nfree = @ + 1]
    ELSE IF p \in m.live THEN [m EXCEPT !.nfree = @ + 1, !.live = @ \ {p}]
    ELSE [m EXCEPT !.nfree = @ + 1, !.bad_free = TRUE]

evict_func(m, value) == [m EXCEPT !.evicted = Append(@, value)]

\* assert(c).  The functions are followed as an NDEBUG build runs them, where
\* assert is compiled out, and the context remembers that the call went past
\* a false one: there a build with assert stops (see Builds)
Asserting(m, c) ==
    IF m.fault # "none" \/ c THEN m ELSE [m EXCEPT !.passed = TRUE]

Crash(m, how) == IF m.fault = "none" THEN [m EXCEPT !.fault = how] ELSE m

Faulted(m) == m.fault # "none"

(***************************************************************************)
(* lrutrack.c: private functions                                           *)
(***************************************************************************)
\* a comparison that looks at the lengths alone
cmp_lengths(a, a_length, b, b_length) == a_length = b_length

lrutrack_cmp_keys(a, a_length, b, b_length) ==
    /\ a_length = b_length
    /\ Len(a) >= a_length /\ Len(b) >= a_length
    /\ SubSeq(a, 1, a_length) = SubSeq(b, 1, a_length)

\* memset(items, 0, ...) then what the caller writes
ZeroItem == [key |-> NULL, bytes |-> <<>>, key_length |-> 0, value |-> 0, next |-> 0]

LinkAt(tt, idx) ==
    IF idx \in DOMAIN tt.hash_table_lru_links THEN tt.hash_table_lru_links[idx] ELSE UINT32_MAX

SetLink(tt, idx, v) ==
    IF idx \in DOMAIN tt.hash_table_lru_links
    THEN [tt EXCEPT !.hash_table_lru_links[idx] = v]
    ELSE [tt EXCEPT !.oob = TRUE]

Touch(tt, idx) ==
    IF idx \in DOMAIN tt.hash_table_lru_links THEN tt ELSE [tt EXCEPT !.oob = TRUE]

ItemOk(tt, idx) == tt.items_ptr # NULL /\ idx \in DOMAIN tt.items

BucketAt(tt, b) == IF b \in DOMAIN tt.hash_table THEN tt.hash_table[b] ELSE UINT32_MAX

lrutrack_check_internal_state(m) ==
    Asserting(m,
        /\ m.t.hash_table_size # 0
        /\ (m.t.first_free = UINT32_MAX \/ (m.t.first_free >= 0 /\ m.t.first_free < m.t.num_items))
        /\ (m.t.lru_head = UINT32_MAX \/ m.t.lru_head \in 0..(m.t.hash_table_size - 1))
        /\ (m.t.lru_tail = UINT32_MAX \/ m.t.lru_tail \in 0..(m.t.hash_table_size - 1))
        /\ (m.t.lru_head = UINT32_MAX \/ LinkAt(m.t, m.t.lru_head * 2 + 0) = UINT32_MAX)
        /\ (m.t.lru_tail = UINT32_MAX \/ LinkAt(m.t, m.t.lru_tail * 2 + 1) = UINT32_MAX))

RECURSIVE FindFrom(_, _, _, _)
FindFrom(tt, key, iter, fuel) ==
    IF iter = UINT32_MAX \/ fuel = 0 \/ iter \notin DOMAIN tt.items THEN UINT32_MAX
    ELSE IF lrutrack_cmp_keys(key, Len(key), tt.items[iter].bytes, tt.items[iter].key_length)
         THEN iter
         ELSE FindFrom(tt, key, tt.items[iter].next, fuel - 1)

lrutrack_find_index(tt, key, hash) ==
    FindFrom(tt, key, BucketAt(tt, hash), tt.num_items)

\* the walk of a hash table row by find_index leaves the items array (or the
\* array is null) before it finds key: the load faults
RECURSIVE ChainFault(_, _, _, _)
ChainFault(tt, key, iter, fuel) ==
    IF iter = UINT32_MAX THEN FALSE
    ELSE IF ~ItemOk(tt, iter) THEN TRUE
    ELSE IF fuel = 0 THEN FALSE
    ELSE IF lrutrack_cmp_keys(key, Len(key), tt.items[iter].bytes, tt.items[iter].key_length) THEN FALSE
    ELSE ChainFault(tt, key, tt.items[iter].next, fuel - 1)

\* ... or never ends, the row being a cycle without key
RECURSIVE ChainHang(_, _, _, _)
ChainHang(tt, key, iter, fuel) ==
    IF iter = UINT32_MAX \/ ~ItemOk(tt, iter) THEN FALSE
    ELSE IF fuel = 0 THEN TRUE
    ELSE IF lrutrack_cmp_keys(key, Len(key), tt.items[iter].bytes, tt.items[iter].key_length) THEN FALSE
    ELSE ChainHang(tt, key, tt.items[iter].next, fuel - 1)

\* the context after the walk of find_index: stopped when the walk faults
Walked(m, key, hash) ==
    IF Faulted(m) THEN m
    ELSE IF ChainFault(m.t, key, BucketAt(m.t, hash), m.t.num_items + 1)
    THEN Crash(Asserting(m, FALSE), "segv")
    ELSE IF ChainHang(m.t, key, BucketAt(m.t, hash), m.t.num_items + 1)
    THEN Crash(m, "hang")
    ELSE m

\* v is computed once and named by the parameter of F
With(v, F(_)) == F(v)

RECURSIVE SumOf(_)
SumOf(s) == IF s = << >> THEN 0 ELSE Head(s) + SumOf(Tail(s))

RECURSIVE SlotsFrom(_, _, _)
\* the arena slots met from slot i on along items[..].next
SlotsFrom(tt, i, fuel) ==
    IF i = UINT32_MAX \/ fuel = 0 \/ ~ItemOk(tt, i) THEN << >>
    ELSE <<i>> \o SlotsFrom(tt, tt.items[i].next, fuel - 1)

\* an insert at the head that does not write the prev link of the old head
insert_to_head_one_way(tt, i) ==
    IF tt.lru_head # UINT32_MAX
    THEN [SetLink(tt, i * 2 + 1, tt.lru_head) EXCEPT !.lru_head = i]
    ELSE [tt EXCEPT !.lru_head = i, !.lru_tail = i]

lrutrack_insert_to_lru_head(tt, i) ==
    IF tt.lru_head # UINT32_MAX
    THEN [SetLink(SetLink(tt, tt.lru_head * 2 + 0, i), i * 2 + 1, tt.lru_head) EXCEPT !.lru_head = i]
    ELSE [tt EXCEPT !.lru_head = i, !.lru_tail = i]

\* t->hash_table_lru_links[a] = x; t->hash_table_lru_links[b] = y; ... in this order
RECURSIVE SetLinks(_, _)
SetLinks(tt, writes) ==
    IF writes = << >> THEN tt
    ELSE SetLinks(SetLink(tt, Head(writes)[1], Head(writes)[2]), Tail(writes))

\* a remove_from_lru that leaves bucket i in the list
remove_from_lru_kept(tt, i) == tt

lrutrack_remove_from_lru(tt, i) ==
    IF tt.lru_head = tt.lru_tail
    THEN [tt EXCEPT !.lru_head = UINT32_MAX, !.lru_tail = UINT32_MAX]
    ELSE With(LinkAt(tt, i * 2 + 0), LAMBDA prev :
         With(LinkAt(tt, i * 2 + 1), LAMBDA next :
           IF i = tt.lru_head
           THEN SetLinks([Touch(tt, i * 2 + 1) EXCEPT !.lru_head = next],
                         << <<next * 2 + 0, UINT32_MAX>>, <<i * 2 + 1, UINT32_MAX>> >>)
           ELSE IF i = tt.lru_tail
           THEN SetLinks([Touch(tt, i * 2 + 0) EXCEPT !.lru_tail = prev],
                         << <<prev * 2 + 1, UINT32_MAX>>, <<i * 2 + 0, UINT32_MAX>> >>)
           ELSE SetLinks(Touch(tt, i * 2 + 0),
                         << <<next * 2 + 0, prev>>, <<prev * 2 + 1, next>>,
                            <<i * 2 + 0, UINT32_MAX>>, <<i * 2 + 1, UINT32_MAX>> >>)))

\* lrutrack_move_to_lru_head without its "t->lru_tail = ..." statement
move_keeping_tail(tt, i) ==
    IF tt.lru_head = tt.lru_tail THEN tt
    ELSE With(LinkAt(tt, i * 2 + 0), LAMBDA prev :
         With(LinkAt(tt, i * 2 + 1), LAMBDA next :
           IF i = tt.lru_tail
           THEN SetLinks([Touch(tt, i * 2 + 0) EXCEPT !.lru_head = i],
                         << <<i * 2 + 0, UINT32_MAX>>, <<prev * 2 + 1, UINT32_MAX>>,
                            <<tt.lru_head * 2 + 0, i>>, <<i * 2 + 1, tt.lru_head>> >>)
           ELSE IF i # tt.lru_head
           THEN SetLinks([Touch(tt, i * 2 + 0) EXCEPT !.lru_head = i],
                         << <<next * 2 + 0, prev>>, <<prev * 2 + 1, next>>,
                            <<i * 2 + 0, UINT32_MAX>>, <<i * 2 + 1, tt.lru_head>>,
                            <<tt.lru_head * 2 + 0, i>> >>)
           ELSE tt))

lrutrack_move_to_lru_head(tt, i) ==
    IF tt.lru_head = tt.lru_tail THEN tt
    ELSE With(LinkAt(tt, i * 2 + 0), LAMBDA prev :
         With(LinkAt(tt, i * 2 + 1), LAMBDA next :
           IF i = tt.lru_tail
           THEN SetLinks([Touch(tt, i * 2 + 0) EXCEPT !.lru_tail = prev, !.lru_head = i],
                         << <<i * 2 + 0, UINT32_MAX>>, <<prev * 2 + 1, UINT32_MAX>>,
                            <<tt.lru_head * 2 + 0, i>>, <<i * 2 + 1, tt.lru_head>> >>)
           ELSE IF i # tt.lru_head
           THEN SetLinks([Touch(tt, i * 2 + 0) EXCEPT !.lru_head = i],
                         << <<next * 2 + 0, prev>>, <<prev * 2 + 1, next>>,
                            <<i * 2 + 0, UINT32_MAX>>, <<i * 2 + 1, tt.lru_head>>,
                            <<tt.lru_head * 2 + 0, i>> >>)
           ELSE tt))

(***************************************************************************)
(* lrutrack.c: public functions.  Each takes the context m the call runs   *)
(* in and gives [m |-> the context after it, ret |-> what it returns].     *)
(***************************************************************************)
ZeroTracker ==
    [self |-> NULL, hash_table_ptr |-> NULL, links_ptr |-> NULL, items_ptr |-> NULL,
     hash_table |-> << >>, hash_table_lru_links |-> << >>, items |-> << >>,
     num_items |-> 0, hash_table_size |-> 0, lru_head |-> 0, lru_tail |-> 0,
     first_free |-> 0, seed |-> U32(0, 0, 0, 0), invalid_value |-> 0, oob |-> FALSE]

Ret(m, ret) == [m |-> m, ret |-> ret]

\* the slots first..last-1 become a free list that ends in none
\* the loop alone, run up to the last slot: no next field is set to none
chain_without_end(items, first, last, value) ==
    [i \in DOMAIN items |->
        IF i >= first /\ i < last THEN [items[i] EXCEPT !.value = value, !.next = i + 1]
        ELSE items[i]]

FreeChain(items, first, last, value) ==
    [i \in DOMAIN items |->
        IF i >= first /\ i < last
        THEN [items[i] EXCEPT !.value = value, !.next = IF i < last - 1 THEN i + 1 ELSE UINT32_MAX]
        ELSE items[i]]

\* for (i = 0; i < n - 1; ++i) items[i].next = i + 1; items[n - 1].next = UINT32_MAX
RelinkAll(items, n) ==
    [i \in DOMAIN items |-> [items[i] EXCEPT !.next = IF i < n - 1 THEN i + 1 ELSE UINT32_MAX]]

RECURSIVE DestroyItemsDown(_, _)
\* the loop of lrutrack_destroy walking the arena from index i down to 0
DestroyItemsDown(m, i) ==
    IF Faulted(m) \/ i < 0 THEN m
    ELSE IF ~ItemOk(m.t, i) THEN Crash(m, "segv")
    ELSE IF m.t.items[i].value # m.t.invalid_value
    THEN DestroyItemsDown(evict_func(free_func(m, m.t.items[i].key), m.t.items[i].value), i - 1)
    ELSE DestroyItemsDown(Asserting(m, m.t.items[i].key = NULL), i - 1)

\* a destroy that starts at the last slot of the arena
destroy_from_last(m, i) == DestroyItemsDown(m, m.t.num_items - 1)

RECURSIVE DestroyItems(_, _)
\* for (i = 0; i < num_items; ++i) of lrutrack_destroy, from index i on
DestroyItems(m, i) ==
    IF Faulted(m) \/ i >= m.t.num_items THEN m
    ELSE IF ~ItemOk(m.t, i) THEN Crash(m, "segv")
    ELSE IF m.t.items[i].value # m.t.invalid_value
    THEN DestroyItems(evict_func(free_func(m, m.t.items[i].key), m.t.items[i].value), i + 1)
    ELSE DestroyItems(Asserting(m, m.t.items[i].key = NULL), i + 1)

lrutrack_destroy(m0) ==
    With(DestroyItems(lrutrack_check_internal_state(m0), 0), LAMBDA m2 :
      IF Faulted(m2) THEN Ret(m2, 0)
      ELSE Ret(free_func(free_func(free_func(free_func(m2, m2.t.items_ptr), m2.t.links_ptr),
                                   m2.t.hash_table_ptr), m2.t.self), 0))

\* lrutrack_destroy(t); return NULL; of lrutrack_create
FailCreate(m) == Ret([lrutrack_destroy(m).m EXCEPT !.t = ZeroTracker], NULL)

\* lrutrack_create from "if (num_initial_items != 0)" on
CreateItems(m, num_initial_items) ==
    IF num_initial_items = 0
    THEN Ret(lrutrack_check_internal_state([m EXCEPT !.t.first_free = UINT32_MAX]), m.t.self)
    ELSE With(malloc_func(m, ARENA_AT), LAMBDA a :
           IF a.ptr = NULL THEN FailCreate([a EXCEPT !.t.items_ptr = NULL])
           ELSE Ret(lrutrack_check_internal_state(
                      [a EXCEPT !.t.items_ptr = a.ptr,
                                !.t.items = FreeChain(Arr(num_initial_items, ZeroItem), 0,
                                                      num_initial_items, m.t.invalid_value),
                                !.t.num_items = num_initial_items,
                                !.t.first_free = 0]),
                    m.t.self))

lrutrack_create(m0, hash_table_size, num_initial_items, hash_seed, invalid_value) ==
    With(malloc_func(m0, HANDLE_AT), LAMBDA a1 :
      IF a1.ptr = NULL THEN Ret([a1 EXCEPT !.t = ZeroTracker], NULL)
      ELSE
    With(malloc_func([a1 EXCEPT !.t = [ZeroTracker EXCEPT !.self = a1.ptr, !.seed = hash_seed,
                                                          !.invalid_value = invalid_value]],
                     TABLE_AT), LAMBDA a2 :
      IF a2.ptr = NULL THEN FailCreate(a2)
      ELSE
    With(malloc_func([a2 EXCEPT !.t.hash_table_ptr = a2.ptr,
                                !.t.hash_table = Arr(hash_table_size, UINT32_MAX)],
                     LINKS_AT), LAMBDA a3 :
      IF a3.ptr = NULL THEN FailCreate(a3)
      ELSE CreateItems([a3 EXCEPT !.t.links_ptr = a3.ptr,
                                  !.t.hash_table_lru_links = Arr(2 * hash_table_size, UINT32_MAX),
                                  !.t.hash_table_size = hash_table_size,
                                  !.t.lru_head = UINT32_MAX, !.t.lru_tail = UINT32_MAX],
                       num_initial_items))))

RECURSIVE RemoveAllChain(_, _, _)
\* the while (iter != UINT32_MAX) loop of lrutrack_remove_all
RemoveAllChain(m, iter, fuel) ==
    IF Faulted(m) \/ iter = UINT32_MAX THEN m
    ELSE IF fuel = 0 THEN Crash(m, "hang")
    ELSE With(Asserting(m, iter >= 0 /\ iter < m.t.num_items), LAMBDA m1 :
           IF Faulted(m1) THEN m1
           ELSE IF ~ItemOk(m1.t, iter) THEN Crash(m1, "segv")
           ELSE With(free_func(evict_func(Asserting(m1, m1.t.items[iter].value # m1.t.invalid_value),
                                          m1.t.items[iter].value),
                               m1.t.items[iter].key), LAMBDA m3 :
                  RemoveAllChain([m3 EXCEPT !.t.items[iter].key = NULL,
                                            !.t.items[iter].bytes = << >>,
                                            !.t.items[iter].value = m3.t.invalid_value],
                                 m3.t.items[iter].next, fuel - 1)))

RECURSIVE RemoveAllRows(_, _)
\* for (i = 0; i < hash_table_size; ++i) of lrutrack_remove_all, from row i on
RemoveAllRows(m, i) ==
    IF Faulted(m) \/ i >= m.t.hash_table_size THEN m
    ELSE RemoveAllRows(RemoveAllChain(m, m.t.hash_table[i], m.t.num_items + 1), i + 1)

lrutrack_remove_all(m0) ==
    With(RemoveAllRows(lrutrack_check_internal_state(m0), 0), LAMBDA m2 :
      IF Faulted(m2) THEN Ret(m2, 0)
      ELSE IF m2.t.num_items # 0 /\ m2.t.items_ptr = NULL THEN Ret(Crash(m2, "segv"), 0)
      ELSE Ret(lrutrack_check_internal_state(
                 [m2 EXCEPT !.t.hash_table = Arr(m2.t.hash_table_size, UINT32_MAX),
                            !.t.hash_table_lru_links = Arr(2 * m2.t.hash_table_size, UINT32_MAX),
                            !.t.items = IF m2.t.num_items # 0 THEN RelinkAll(@, m2.t.num_items) ELSE @,
                            !.t.lru_head = UINT32_MAX, !.t.lru_tail = UINT32_MAX,
                            !.t.first_free = 0]),
               0))

\* the branch "if (t->num_items == 0)" of the growth in lrutrack_insert
GrowFromZero(m) ==
    With(malloc_func(m, ARENA_AT), LAMBDA a :
      IF a.ptr = NULL
      THEN Ret([a EXCEPT !.t.items_ptr = NULL, !.t.items = << >>], LRUTRACK_OOM)
      ELSE Ret([a EXCEPT !.t.items_ptr = a.ptr,
                         !.t.items = RelinkAll([i \in 0..(m.t.hash_table_size - 1) |->
                                                   IF i < m.junk.from THEN ZeroItem
                                                   ELSE [ZeroItem EXCEPT !.key = m.junk.key,
                                                                         !.value = m.junk.value]],
                                               m.t.hash_table_size),
                         !.t.num_items = m.t.hash_table_size,
                         !.t.first_free = 0],
               LRUTRACK_OK))

\* a doubling that does not copy the old records into the new arena
grow_without_copy(m) ==
    With(malloc_func([m EXCEPT !.t.num_items = 2 * m.t.num_items],
                     IF m.t.items_ptr = ARENA_AT THEN ARENA_AT + 1 ELSE ARENA_AT), LAMBDA a :
      Ret([free_func(a, m.t.items_ptr)
             EXCEPT !.t.items_ptr = a.ptr,
                    !.t.items = FreeChain(Arr(2 * m.t.num_items, ZeroItem),
                                          m.t.num_items, 2 * m.t.num_items, m.t.invalid_value),
                    !.t.first_free = m.t.num_items],
          LRUTRACK_OK))

\* the else branch: the arena doubles
GrowDouble(m) ==
    With(malloc_func([m EXCEPT !.t.num_items = 2 * m.t.num_items],
                     IF m.t.items_ptr = ARENA_AT THEN ARENA_AT + 1 ELSE ARENA_AT), LAMBDA a :
      IF a.ptr = NULL
      THEN Ret([a EXCEPT !.t.items_ptr = NULL, !.t.items = << >>], LRUTRACK_OOM)
      ELSE IF m.t.items_ptr = NULL THEN Ret(Crash(a, "segv"), LRUTRACK_OK)
      ELSE Ret([free_func(a, m.t.items_ptr)
                  EXCEPT !.t.items_ptr = a.ptr,
                         !.t.items = FreeChain([i \in 0..(2 * m.t.num_items - 1) |->
                                                   IF i < m.t.num_items THEN m.t.items[i] ELSE ZeroItem],
                                               m.t.num_items, 2 * m.t.num_items, m.t.invalid_value),
                         !.t.first_free = m.t.num_items],
               LRUTRACK_OK))

\* if (t->first_free == UINT32_MAX) { ... } of lrutrack_insert
InsertGrow(m) ==
    IF Faulted(m) \/ m.t.first_free # UINT32_MAX THEN Ret(m, LRUTRACK_OK)
    ELSE IF m.t.num_items = 0 THEN GrowFromZero(m)
    ELSE GrowDouble(m)

\* lrutrack_insert from "if (t->hash_table[hash] == UINT32_MAX)" on
InsertLink(m, hash, index) ==
    With(IF m.t.hash_table[hash] = UINT32_MAX
         THEN [Asserting(m, /\ LinkAt(m.t, hash * 2 + 0) = UINT32_MAX
                            /\ LinkAt(m.t, hash * 2 + 1) = UINT32_MAX)
                 EXCEPT !.t = lrutrack_insert_to_lru_head(m.t, hash)]
         ELSE [m EXCEPT !.t = lrutrack_move_to_lru_head(m.t, hash)], LAMBDA m1 :
      IF Faulted(m1) THEN Ret(m1, LRUTRACK_OK)
      ELSE Ret(lrutrack_check_internal_state(
                 [m1 EXCEPT !.t.first_free = m1.t.items[index].next,
                            !.t.items[index].next = m1.t.hash_table[hash],
                            !.t.hash_table[hash] = index]),
               LRUTRACK_OK))

\* lrutrack_insert from "uint32_t index = t->first_free" on
InsertTake(m0, key, value, hash, index) ==
    With(Asserting(m0, index >= 0 /\ index < m0.t.num_items), LAMBDA m1 :
      IF Faulted(m1) THEN Ret(m1, LRUTRACK_OK)
      ELSE IF ~ItemOk(m1.t, index) THEN Ret(Crash(m1, "segv"), LRUTRACK_OK)
      ELSE
    With(Asserting(m1, m1.t.items[index].value = m1.t.invalid_value), LAMBDA m2 :
      IF Faulted(m2) THEN Ret(m2, LRUTRACK_OK)
      ELSE
    With(malloc_func(m2, KEY_AT + index), LAMBDA a :
      IF a.ptr = NULL THEN Ret([a EXCEPT !.t.items[index].key = NULL], LRUTRACK_OOM)
      ELSE InsertLink([a EXCEPT !.t.items[index].key = a.ptr,
                                !.t.items[index].bytes = key,
                                !.t.items[index].key_length = Len(key),
                                !.t.items[index].value = value],
                      hash, index))))

InsertChecked(m1, key, value, hash) ==
    With(InsertGrow(Asserting(m1,
                              /\ Len(key) # 0
                              /\ Walked(m1, key, hash) = m1
                              /\ value # m1.t.invalid_value
                              /\ lrutrack_find_index(m1.t, key, hash) = UINT32_MAX)), LAMBDA g :
      IF Faulted(g.m) \/ g.ret # LRUTRACK_OK THEN g
      ELSE InsertTake(g.m, key, value, hash, g.m.t.first_free))

lrutrack_insert(m0, key, value) ==
    InsertChecked(lrutrack_check_internal_state(m0), key, value,
                  hash_of(key, m0.t.seed, m0.t.hash_table_size))

\* the search for the item before index that does not walk the chain
prev_not_searched(tt, iter, index, prev_index, fuel) == prev_index

RECURSIVE PrevInChain(_, _, _, _, _)
\* the loop of lrutrack_remove that finds the item before index in its chain
PrevInChain(tt, iter, index, prev_index, fuel) ==
    IF iter = UINT32_MAX \/ iter = index \/ fuel = 0 \/ iter \notin DOMAIN tt.items THEN prev_index
    ELSE PrevInChain(tt, tt.items[iter].next, index, iter, fuel - 1)

\* an unlinking that takes the bucket out of the LRU list whenever the chain
\* head goes, items left in the chain or not
unlink_delisting(m, hash, index, item, prev_index) ==
    IF prev_index # UINT32_MAX THEN Ret(m, LRUTRACK_OK)
    ELSE Ret([m EXCEPT !.t = lrutrack_remove_from_lru([m.t EXCEPT !.hash_table[hash] = item.next], hash)],
             LRUTRACK_OK)

\* lrutrack_remove from "if (prev_index == UINT32_MAX)" on; item is items[index]
RemoveUnlink(m, hash, index, item, prev_index) ==
    With(IF prev_index = UINT32_MAX
         THEN [Asserting(m, m.t.hash_table[hash] = index)
                 EXCEPT !.t = IF item.next = UINT32_MAX
                              THEN lrutrack_remove_from_lru([m.t EXCEPT !.hash_table[hash] = item.next], hash)
                              ELSE [m.t EXCEPT !.hash_table[hash] = item.next]]
         ELSE [Asserting(m, m.t.items[prev_index].next = index)
                 EXCEPT !.t.items[prev_index].next = item.next], LAMBDA m1 :
      IF Faulted(m1) THEN Ret(m1, LRUTRACK_OK)
      ELSE Ret(lrutrack_check_internal_state(
                 [free_func(m1, item.key)
                    EXCEPT !.t.items[index].next = m1.t.first_free,
                           !.t.first_free = index,
                           !.t.items[index].key = NULL,
                           !.t.items[index].bytes = << >>,
                           !.t.items[index].value = m1.t.invalid_value]),
               LRUTRACK_OK))

RemoveFound(m1, hash, index) ==
    IF Faulted(m1) THEN Ret(m1, LRUTRACK_OK)
    ELSE IF index = UINT32_MAX THEN Ret(m1, LRUTRACK_NOT_FOUND)
    ELSE RemoveUnlink(evict_func(Asserting(m1, m1.t.items[index].value # m1.t.invalid_value),
                                 m1.t.items[index].value),
                      hash, index, m1.t.items[index],
                      PrevInChain(m1.t, m1.t.hash_table[hash], index, UINT32_MAX, m1.t.num_items))

lrutrack_remove(m0, key) ==
    With(hash_of(key, m0.t.seed, m0.t.hash_table_size), LAMBDA hash :
      RemoveFound(Walked(lrutrack_check_internal_state(Asserting(m0, Len(key) # 0)), key, hash), hash,
                  lrutrack_find_index(m0.t, key, hash)))

\* the loop of lrutrack_remove_lru leaving after its first item
remove_first_of_chain(m, iter, fuel) ==
    IF Faulted(m) \/ iter = UINT32_MAX THEN m
    ELSE IF ~ItemOk(m.t, iter) THEN Crash(m, "segv")
    ELSE With(evict_func(free_func(m, m.t.items[iter].key), m.t.items[iter].value), LAMBDA m3 :
           [m3 EXCEPT !.t.items[iter].key = NULL,
                      !.t.items[iter].bytes = << >>,
                      !.t.items[iter].value = m3.t.invalid_value,
                      !.t.items[iter].next = m3.t.first_free,
                      !.t.first_free = iter])

RECURSIVE RemoveLruChain(_, _, _)
\* the while (iter != UINT32_MAX) loop of lrutrack_remove_lru
RemoveLruChain(m, iter, fuel) ==
    IF Faulted(m) \/ iter = UINT32_MAX THEN m
    ELSE IF fuel = 0 THEN Crash(m, "hang")
    ELSE With(Asserting(m, iter >= 0 /\ iter < m.t.num_items), LAMBDA m1 :
           IF Faulted(m1) THEN m1
           ELSE IF ~ItemOk(m1.t, iter) THEN Crash(m1, "segv")
           ELSE With(evict_func(free_func(Asserting(m1, m1.t.items[iter].value # m1.t.invalid_value),
                                          m1.t.items[iter].key),
                                m1.t.items[iter].value), LAMBDA m3 :
                  RemoveLruChain([m3 EXCEPT !.t.items[iter].key = NULL,
                                            !.t.items[iter].bytes = << >>,
                                            !.t.items[iter].value = m3.t.invalid_value,
                                            !.t.items[iter].next = m3.t.first_free,
                                            !.t.first_free = iter],
                                 m3.t.items[iter].next, fuel - 1)))

\* lrutrack_remove_lru from "uint32_t new_tail = ..." on
RemoveLruTail(m1, new_tail) ==
    With(Asserting([m1 EXCEPT !.t = SetLink(m1.t, m1.t.lru_tail * 2 + 0, UINT32_MAX)],
                   LinkAt(m1.t, m1.t.lru_tail * 2 + 1) = UINT32_MAX), LAMBDA m2 :
      IF Faulted(m2) THEN Ret(m2, LRUTRACK_OK)
      ELSE Ret(lrutrack_check_internal_state(
                 RemoveLruChain(
                   [m2 EXCEPT !.t = [(IF new_tail # UINT32_MAX
                                      THEN SetLink(m2.t, new_tail * 2 + 1, UINT32_MAX)
                                      ELSE m2.t)
                                       EXCEPT !.hash_table[m2.t.lru_tail] = UINT32_MAX,
                                              !.lru_head = IF m2.t.lru_head = m2.t.lru_tail
                                                           THEN new_tail ELSE @,
                                              !.lru_tail = new_tail]],
                   BucketAt(m2.t, m2.t.lru_tail), m2.t.num_items + 1)),
               LRUTRACK_OK))

\* lrutrack_remove_lru without its test for an empty list
remove_lru_untested(m0) ==
    With(lrutrack_check_internal_state(m0), LAMBDA m1 :
      IF Faulted(m1) THEN Ret(m1, LRUTRACK_OK)
      ELSE RemoveLruTail(m1, LinkAt(m1.t, m1.t.lru_tail * 2 + 0)))

lrutrack_remove_lru(m0) ==
    With(lrutrack_check_internal_state(m0), LAMBDA m1 :
      IF Faulted(m1) THEN Ret(m1, LRUTRACK_OK)
      ELSE IF m1.t.lru_tail = UINT32_MAX
      THEN Ret(Asserting(m1, m1.t.lru_head = UINT32_MAX), LRUTRACK_NOT_FOUND)
      ELSE RemoveLruTail(m1, LinkAt(m1.t, m1.t.lru_tail * 2 + 0)))

UseFound(m1, hash, index) ==
    IF Faulted(m1) THEN Ret(m1, 0)
    ELSE IF index = UINT32_MAX THEN Ret(m1, m1.t.invalid_value)
    ELSE Ret([m1 EXCEPT !.t = lrutrack_move_to_lru_head(m1.t, hash)], m1.t.items[index].value)

lrutrack_use(m0, key) ==
    With(hash_of(key, m0.t.seed, m0.t.hash_table_size), LAMBDA hash :
      UseFound(Walked(lrutrack_check_internal_state(Asserting(m0, Len(key) # 0)), key, hash), hash,
               lrutrack_find_index(m0.t, key, hash)))

(***************************************************************************)
(* slru.c, the first implementation (lines 1-593): private functions.      *)
(* The handle is the field t of the context, as for the tracker.           *)
(***************************************************************************)
SLRU_OK == 0
SLRU_ERROR == 1
SLRU_OOM == 2
SLRU_NOT_FOUND == 3
SLRU_DOESNT_FIT == 4

\* a < b of two uint32_t, UINT32_MAX being -1 and UINT32_MAX - 1 being -2
ULt(a, b) == IF (a < 0) = (b < 0) THEN a < b ELSE b < 0

slru_hash(key, seed, hash_table_size) == hash_of(key, seed, hash_table_size)

slru_cmp_keys(a, a_length, b, b_length) ==
    /\ a_length = b_length
    /\ Len(a) >= a_length /\ Len(b) >= a_length
    /\ SubSeq(a, 1, a_length) = SubSeq(b, 1, a_length)

ZeroSlruItem ==
    [key |-> NULL, bytes |-> << >>, key_length |-> 0, consumption |-> 0, value |-> 0, next |-> 0]

slru_check_internal_state(m) ==
    Asserting(m,
        /\ m.t.hash_table_size # 0
        /\ ~ULt(m.t.num_items, m.t.num_items_in_use)
        /\ (m.t.first_free = UINT32_MAX \/ ULt(m.t.first_free, m.t.num_items))
        /\ (m.t.lru_head = UINT32_MAX \/ ULt(m.t.lru_head, m.t.hash_table_size))
        /\ (m.t.lru_tail = UINT32_MAX \/ ULt(m.t.lru_tail, m.t.hash_table_size))
        /\ (m.t.lru_head = UINT32_MAX \/ LinkAt(m.t, m.t.lru_head * 2 + 0) = UINT32_MAX)
        /\ (m.t.lru_tail = UINT32_MAX \/ LinkAt(m.t, m.t.lru_tail * 2 + 1) = UINT32_MAX))

RECURSIVE EvictChain(_, _, _)
\* the while (iter != UINT32_MAX) loop of slru_evict_oldest
EvictChain(m, iter, fuel) ==
    IF Faulted(m) \/ iter = UINT32_MAX THEN m
    ELSE IF fuel = 0 THEN Crash(m, "hang")
    ELSE With(Asserting(m, ULt(iter, m.t.num_items)), LAMBDA m1 :
           IF Faulted(m1) THEN m1
           ELSE IF ~ItemOk(m1.t, iter) THEN Crash(m1, "segv")
           ELSE With(evict_func(free_func(Asserting(m1, m1.t.items[iter].consumption # 0),
                                          m1.t.items[iter].key),
                                m1.t.items[iter].value), LAMBDA m3 :
                  EvictChain([m3 EXCEPT !.t.items[iter].key = NULL,
                                        !.t.items[iter].bytes = << >>,
                                        !.t.num_items_in_use = @ - 1,
                                        !.t.cache_left = @ + m3.t.items[iter].consumption,
                                        !.t.items[iter].consumption = 0,
                                        !.t.items[iter].next = m3.t.first_free,
                                        !.t.first_free = iter],
                             m3.t.items[iter].next, fuel - 1)))

\* slru->hash_table_lru_links[new_tail * 2 + 1] = UINT32_MAX, which nothing
\* guards: with new_tail none the index is UINT32_MAX and the store lands
\* 16 GB past the array, where it stops the program or (m.wild) changes
\* nothing the cache reads again
StoreNewTail(m, new_tail) ==
    IF new_tail * 2 + 1 \in DOMAIN m.t.hash_table_lru_links
    THEN [m EXCEPT !.t = SetLink(m.t, new_tail * 2 + 1, UINT32_MAX)]
    ELSE IF m.wild THEN m ELSE Crash(m, "oob")

\* slru_evict_oldest from the first store on; new_tail has been read
EvictTail(m, new_tail) ==
    With(Asserting(Asserting([m EXCEPT !.t = SetLink(m.t, m.t.lru_tail * 2 + 0, UINT32_MAX)],
                             LinkAt(m.t, m.t.lru_tail * 2 + 1) = UINT32_MAX),
                   ULt(new_tail, m.t.hash_table_size)), LAMBDA m2 :
    With(StoreNewTail(m2, new_tail), LAMBDA m3 :
      IF Faulted(m3) THEN m3
      ELSE EvictChain([m3 EXCEPT !.t.hash_table[m3.t.lru_tail] = UINT32_MAX,
                                 !.t.lru_head = IF m3.t.lru_head = m3.t.lru_tail THEN new_tail ELSE @,
                                 !.t.lru_tail = new_tail],
                      m3.t.hash_table[m3.t.lru_tail], m3.t.num_items + 1)))

\* it always returns SLRU_OK; what it gives here is the context after it.
\* With lru_tail none the first load is 16 GB past the array: the program is
\* taken to stop there.
slru_evict_oldest(m) ==
    With(Asserting(m, ULt(m.t.lru_tail, m.t.hash_table_size)), LAMBDA m1 :
      IF Faulted(m1) THEN m1
      ELSE IF m1.t.lru_tail * 2 + 0 \notin DOMAIN m1.t.hash_table_lru_links
              \/ m1.t.lru_tail \notin DOMAIN m1.t.hash_table
      THEN Crash(m1, "oob")
      ELSE EvictTail(m1, LinkAt(m1.t, m1.t.lru_tail * 2 + 0)))

slru_find_index(tt, key, hash) == FindFrom(tt, key, BucketAt(tt, hash), tt.num_items + 1)

slru_insert_to_lru_head(tt, i) ==
    IF tt.lru_head # UINT32_MAX
    THEN [SetLink(SetLink(tt, tt.lru_head * 2 + 0, i), i * 2 + 1, tt.lru_head) EXCEPT !.lru_head = i]
    ELSE [tt EXCEPT !.lru_head = i, !.lru_tail = i]

slru_remove_from_lru(tt, i) ==
    IF tt.lru_head = tt.lru_tail
    THEN [tt EXCEPT !.lru_head = UINT32_MAX, !.lru_tail = UINT32_MAX]
    ELSE With(LinkAt(tt, i * 2 + 0), LAMBDA prev :
         With(LinkAt(tt, i * 2 + 1), LAMBDA next :
           IF i = tt.lru_head
           THEN SetLinks([Touch(tt, i * 2 + 1) EXCEPT !.lru_head = next],
                         << <<next * 2 + 0, UINT32_MAX>>, <<i * 2 + 1, UINT32_MAX>> >>)
           ELSE IF i = tt.lru_tail
           THEN SetLinks([Touch(tt, i * 2 + 0) EXCEPT !.lru_tail = prev],
                         << <<prev * 2 + 1, UINT32_MAX>>, <<i * 2 + 0, UINT32_MAX>> >>)
           ELSE SetLinks(Touch(tt, i * 2 + 0),
                         << <<prev * 2 + 0, next>>, <<next * 2 + 1, prev>>,
                            <<i * 2 + 0, UINT32_MAX>>, <<i * 2 + 1, UINT32_MAX>> >>)))

slru_move_to_lru_head(tt, i) ==
    IF tt.lru_head = tt.lru_tail THEN tt
    ELSE With(LinkAt(tt, i * 2 + 0), LAMBDA prev :
         With(LinkAt(tt, i * 2 + 1), LAMBDA next :
           IF i = tt.lru_tail
           THEN SetLinks([Touch(tt, i * 2 + 0) EXCEPT !.lru_tail = prev, !.lru_head = i],
                         << <<i * 2 + 0, UINT32_MAX>>, <<prev * 2 + 1, UINT32_MAX>>,
                            <<tt.lru_head * 2 + 0, i>>, <<i * 2 + 1, tt.lru_head>> >>)
           ELSE IF i # tt.lru_head
           THEN SetLinks([Touch(tt, i * 2 + 0) EXCEPT !.lru_head = i],
                         << <<next * 2 + 0, prev>>, <<prev * 2 + 1, next>>,
                            <<i * 2 + 0, UINT32_MAX>>, <<i * 2 + 1, tt.lru_head>>,
                            <<tt.lru_head * 2 + 0, i>> >>)
           ELSE tt))

(***************************************************************************)
(* slru.c, the first implementation: public functions                      *)
(***************************************************************************)
ZeroSlru ==
    [self |-> NULL, hash_table_ptr |-> NULL, links_ptr |-> NULL, items_ptr |-> NULL,
     hash_table |-> << >>, hash_table_lru_links |-> << >>, items |-> << >>,
     num_items |-> 0, num_items_in_use |-> 0, hash_table_size |-> 0,
     lru_head |-> 0, lru_tail |-> 0, seed |-> U32(0, 0, 0, 0), first_free |-> 0,
     cache_left |-> 0, oob |-> FALSE]

RECURSIVE SlruDestroyItems(_, _)
\* for (i = 0; i < num_items; ++i) of slru_destroy, from index i on
SlruDestroyItems(m, i) ==
    IF Faulted(m) \/ i >= m.t.num_items THEN m
    ELSE IF ~ItemOk(m.t, i) THEN Crash(m, "segv")
    ELSE IF m.t.items[i].consumption # 0
    THEN SlruDestroyItems(evict_func(free_func(m, m.t.items[i].key), m.t.items[i].value), i + 1)
    ELSE SlruDestroyItems(Asserting(m, m.t.items[i].key = NULL), i + 1)

slru_destroy(m0) ==
    With(SlruDestroyItems(slru_check_internal_state(m0), 0), LAMBDA m2 :
      IF Faulted(m2) THEN Ret(m2, 0)
      ELSE Ret(free_func(free_func(free_func(free_func(m2, m2.t.items_ptr), m2.t.links_ptr),
                                   m2.t.hash_table_ptr), m2.t.self), 0))

\* slru_destroy(slru); return NULL; of slru_create
SlruFailCreate(m) == Ret([slru_destroy(m).m EXCEPT !.t = ZeroSlru], NULL)

\* slru_create from "if (num_initial_items != 0)" on
SlruCreateItems(m, num_initial_items) ==
    IF num_initial_items = 0
    THEN Ret(slru_check_internal_state([m EXCEPT !.t.first_free = UINT32_MAX]), m.t.self)
    ELSE With(malloc_func(m, ARENA_AT), LAMBDA a :
           IF a.ptr = NULL THEN SlruFailCreate([a EXCEPT !.t.items_ptr = NULL])
           ELSE Ret(slru_check_internal_state(
                      [a EXCEPT !.t.items_ptr = a.ptr,
                                !.t.items = RelinkAll(Arr(num_initial_items, ZeroSlruItem),
                                                      num_initial_items),
                                !.t.num_items = num_initial_items,
                                !.t.first_free = 0]),
                    m.t.self))

\* slru_create after its first malloc_func succeeded
SlruCreateTables(a1, hash_table_size, num_initial_items, cache_size) ==
    With(malloc_func([a1 EXCEPT !.t = [ZeroSlru EXCEPT !.self = a1.ptr, !.cache_left = cache_size]],
                     TABLE_AT), LAMBDA a2 :
      IF a2.ptr = NULL THEN SlruFailCreate(a2)
      ELSE
    With(malloc_func([a2 EXCEPT !.t.hash_table_ptr = a2.ptr,
                                !.t.hash_table = Arr(hash_table_size, UINT32_MAX)],
                     LINKS_AT), LAMBDA a3 :
      IF a3.ptr = NULL THEN SlruFailCreate(a3)
      ELSE SlruCreateItems([a3 EXCEPT !.t.links_ptr = a3.ptr,
                                      !.t.hash_table_lru_links = Arr(2 * hash_table_size, UINT32_MAX),
                                      !.t.hash_table_size = hash_table_size,
                                      !.t.lru_head = UINT32_MAX, !.t.lru_tail = UINT32_MAX],
                           num_initial_items)))

slru_create(m0, hash_table_size, num_initial_items, cache_size) ==
    With(malloc_func(Asserting(m0, /\ hash_table_size # 0 /\ cache_size # 0
                                   /\ lrutrack_is_power_of_two(hash_table_size)),
                     HANDLE_AT), LAMBDA a1 :
      IF a1.ptr = NULL THEN Ret([a1 EXCEPT !.t = ZeroSlru], NULL)
      ELSE SlruCreateTables(a1, hash_table_size, num_initial_items, cache_size))

RECURSIVE SlruRemoveAllChain(_, _, _)
\* the while (iter != UINT32_MAX) loop of slru_remove_all
SlruRemoveAllChain(m, iter, fuel) ==
    IF Faulted(m) \/ iter = UINT32_MAX THEN m
    ELSE IF fuel = 0 THEN Crash(m, "hang")
    ELSE With(Asserting(m, ULt(iter, m.t.num_items)), LAMBDA m1 :
           IF Faulted(m1) THEN m1
           ELSE IF ~ItemOk(m1.t, iter) THEN Crash(m1, "segv")
           ELSE With(free_func(evict_func(m1, m1.t.items[iter].value), m1.t.items[iter].key),
                     LAMBDA m3 :
                  SlruRemoveAllChain([m3 EXCEPT !.t.items[iter].key = NULL,
                                                !.t.items[iter].bytes = << >>,
                                                !.t.cache_left = @ + m3.t.items[iter].consumption],
                                     m3.t.items[iter].next, fuel - 1)))

RECURSIVE SlruRemoveAllRows(_, _)
\* for (i = 0; i < hash_table_size; ++i) of slru_remove_all, from row i on
SlruRemoveAllRows(m, i) ==
    IF Faulted(m) \/ i >= m.t.hash_table_size THEN m
    ELSE SlruRemoveAllRows(SlruRemoveAllChain(m, m.t.hash_table[i], m.t.num_items + 1), i + 1)

\* with num_items 0 the bound num_items - 1 of the last loop is UINT32_MAX and
\* items is null or too short: the first store faults
slru_remove_all(m0) ==
    With(SlruRemoveAllRows(slru_check_internal_state(m0), 0), LAMBDA m2 :
      IF Faulted(m2) THEN Ret(m2, 0)
      ELSE IF m2.t.num_items = 0 \/ m2.t.items_ptr = NULL THEN Ret(Crash(m2, "segv"), 0)
      ELSE Ret([m2 EXCEPT !.t.hash_table = Arr(m2.t.hash_table_size, UINT32_MAX),
                          !.t.hash_table_lru_links = Arr(2 * m2.t.hash_table_size, UINT32_MAX),
                          !.t.items = RelinkAll(Arr(m2.t.num_items, ZeroSlruItem), m2.t.num_items),
                          !.t.first_free = 0,
                          !.t.num_items_in_use = 0],
               0))

RECURSIVE EvictUntilFits(_, _, _)
\* while (slru->cache_left < consumption) { if (slru_evict_oldest(slru) != SLRU_OK) break; }
EvictUntilFits(m, consumption, fuel) ==
    IF Faulted(m) \/ ~ULt(m.t.cache_left, consumption) THEN m
    ELSE IF fuel = 0 THEN Crash(m, "hang")
    ELSE EvictUntilFits(slru_evict_oldest(m), consumption, fuel - 1)

\* the branch "if (slru->num_items == 0)" of the growth in slru_insert
SlruGrowFromZero(m) ==
    With(malloc_func(m, ARENA_AT), LAMBDA a :
      IF a.ptr = NULL
      THEN Ret([a EXCEPT !.t.items_ptr = NULL, !.t.items = << >>], SLRU_OOM)
      ELSE Ret([a EXCEPT !.t.items_ptr = a.ptr,
                         !.t.items = RelinkAll([i \in 0..(m.t.hash_table_size - 1) |->
                                                   IF i < m.junk.from THEN ZeroSlruItem
                                                   ELSE [ZeroSlruItem EXCEPT !.key = m.junk.key,
                                                                             !.consumption = m.junk.value,
                                                                             !.value = m.junk.value]],
                                               m.t.hash_table_size),
                         !.t.num_items = m.t.hash_table_size,
                         !.t.first_free = 0],
               SLRU_OK))

\* the else branch: the arena doubles
SlruGrowDouble(m) ==
    With(malloc_func([m EXCEPT !.t.num_items = 2 * m.t.num_items],
                     IF m.t.items_ptr = ARENA_AT THEN ARENA_AT + 1 ELSE ARENA_AT), LAMBDA a :
      IF a.ptr = NULL
      THEN Ret([a EXCEPT !.t.items_ptr = NULL, !.t.items = << >>], SLRU_OOM)
      ELSE IF m.t.items_ptr = NULL THEN Ret(Crash(a, "segv"), SLRU_OK)
      ELSE Ret([free_func(a, m.t.items_ptr)
                  EXCEPT !.t.items_ptr = a.ptr,
                         !.t.items = [i \in 0..(2 * m.t.num_items - 1) |->
                                         IF i < m.t.num_items THEN m.t.items[i]
                                         ELSE [ZeroSlruItem EXCEPT !.next =
                                                  IF i < 2 * m.t.num_items - 1 THEN i + 1
                                                  ELSE UINT32_MAX]],
                         !.t.first_free = m.t.num_items],
               SLRU_OK))

\* if (slru->first_free == UINT32_MAX) { ... } of slru_insert
SlruInsertGrow(m) ==
    IF Faulted(m) \/ m.t.first_free # UINT32_MAX THEN Ret(m, SLRU_OK)
    ELSE IF m.t.num_items = 0 THEN SlruGrowFromZero(m)
    ELSE SlruGrowDouble(m)

\* slru_insert from "if (slru->hash_table[hash] == UINT32_MAX)" on
SlruInsertLink(m, hash, index) ==
    With(IF m.t.hash_table[hash] = UINT32_MAX
         THEN [Asserting(m, /\ LinkAt(m.t, hash * 2 + 0) = UINT32_MAX
                            /\ LinkAt(m.t, hash * 2 + 1) = UINT32_MAX)
                 EXCEPT !.t = slru_insert_to_lru_head(m.t, hash)]
         ELSE [m EXCEPT !.t = slru_move_to_lru_head(m.t, hash)], LAMBDA m1 :
      IF Faulted(m1) THEN Ret(m1, SLRU_OK)
      ELSE Ret([m1 EXCEPT !.t.first_free = m1.t.items[index].next,
                          !.t.items[index].next = m1.t.hash_table[hash],
                          !.t.hash_table[hash] = index,
                          !.t.num_items_in_use = @ + 1],
               SLRU_OK))

\* slru_insert from "uint32_t index = slru->first_free" on
SlruInsertTake(m0, key, value, consumption, hash, index) ==
    With(Asserting(m0, ULt(index, m0.t.num_items)), LAMBDA m1 :
      IF Faulted(m1) THEN Ret(m1, SLRU_OK)
      ELSE IF ~ItemOk(m1.t, index) THEN Ret(Crash(m1, "segv"), SLRU_OK)
      ELSE
    With(Asserting(m1, m1.t.items[index].consumption = 0), LAMBDA m2 :
      IF Faulted(m2) THEN Ret(m2, SLRU_OK)
      ELSE
    With(malloc_func(m2, KEY_AT + index), LAMBDA a :
      IF a.ptr = NULL THEN Ret([a EXCEPT !.t.items[index].key = NULL], SLRU_OOM)
      ELSE SlruInsertLink([a EXCEPT !.t.items[index].key = a.ptr,
                                    !.t.items[index].bytes = key,
                                    !.t.items[index].key_length = Len(key),
                                    !.t.items[index].value = value,
                                    !.t.items[index].consumption = consumption],
                          hash, index))))

\* slru_insert from "slru->cache_left -= consumption" on
SlruInsertFitting(m, key, value, consumption, hash) ==
    With(SlruInsertGrow(Asserting(m, /\ Walked(m, key, hash) = m
                                     /\ slru_find_index(m.t, key, hash) = UINT32_MAX)), LAMBDA g :
      IF Faulted(g.m) \/ g.ret # SLRU_OK THEN g
      ELSE SlruInsertTake(g.m, key, value, consumption, hash, g.m.t.first_free))

\* an insert without the loop that makes room and without the test after it
insert_without_room(m0, key, value, consumption) ==
    With(Asserting(slru_check_internal_state(m0), Len(key) # 0 /\ consumption # 0), LAMBDA m2 :
      IF Faulted(m2) THEN Ret(m2, SLRU_OK)
      ELSE SlruInsertFitting([m2 EXCEPT !.t.cache_left = @ - consumption], key, value, consumption,
                             slru_hash(key, m2.t.seed, m2.t.hash_table_size)))

slru_insert(m0, key, value, consumption) ==
    With(EvictUntilFits(Asserting(slru_check_internal_state(m0),
                                  Len(key) # 0 /\ consumption # 0),
                        consumption, 2 * m0.t.hash_table_size + 2), LAMBDA m2 :
      IF Faulted(m2) THEN Ret(m2, SLRU_OK)
      ELSE IF ULt(m2.t.cache_left, consumption) THEN Ret(m2, SLRU_DOESNT_FIT)
      ELSE SlruInsertFitting([m2 EXCEPT !.t.cache_left = @ - consumption], key, value, consumption,
                             slru_hash(key, m2.t.seed, m2.t.hash_table_size)))

\* slru_remove from "if (prev_index == UINT32_MAX)" on; item is items[index]
SlruRemoveUnlink(m, hash, index, item, prev_index) ==
    With(IF prev_index = UINT32_MAX
         THEN [Asserting(m, m.t.hash_table[hash] = index)
                 EXCEPT !.t = IF item.next = UINT32_MAX
                              THEN slru_remove_from_lru([m.t EXCEPT !.hash_table[hash] = item.next], hash)
                              ELSE [m.t EXCEPT !.hash_table[hash] = item.next]]
         ELSE [Asserting(m, m.t.items[prev_index].next = index)
                 EXCEPT !.t.items[prev_index].next = item.next], LAMBDA m1 :
      IF Faulted(m1) THEN Ret(m1, SLRU_OK)
      ELSE Ret([free_func(m1, item.key)
                  EXCEPT !.t.items[index].next = m1.t.first_free,
                         !.t.first_free = index,
                         !.t.items[index].key = NULL,
                         !.t.items[index].bytes = << >>,
                         !.t.cache_left = @ + item.consumption,
                         !.t.items[index].consumption = 0,
                         !.t.num_items_in_use = @ - 1],
               SLRU_OK))

SlruRemoveFound(m1, hash, index) ==
    IF Faulted(m1) THEN Ret(m1, SLRU_OK)
    ELSE IF index = UINT32_MAX THEN Ret(m1, SLRU_NOT_FOUND)
    ELSE SlruRemoveUnlink(Asserting(m1, ULt(index, m1.t.num_items)), hash, index, m1.t.items[index],
                          PrevInChain(m1.t, m1.t.hash_table[hash], index, UINT32_MAX, m1.t.num_items))

slru_remove(m0, key) ==
    With(slru_hash(key, m0.t.seed, m0.t.hash_table_size), LAMBDA hash :
      SlruRemoveFound(Walked(slru_check_internal_state(Asserting(m0, Len(key) # 0)), key, hash),
                      hash, slru_find_index(m0.t, key, hash)))

SlruFetchFound(m1, hash, index, invalid_value) ==
    IF Faulted(m1) THEN Ret(m1, 0)
    ELSE IF index = UINT32_MAX THEN Ret(m1, invalid_value)
    ELSE Ret([m1 EXCEPT !.t = slru_move_to_lru_head(m1.t, hash)], m1.t.items[index].value)

slru_fetch(m0, key, invalid_value) ==
    With(slru_hash(key, m0.t.seed, m0.t.hash_table_size), LAMBDA hash :
      SlruFetchFound(Walked(slru_check_internal_state(Asserting(m0, Len(key) # 0)), key, hash),
                     hash, slru_find_index(m0.t, key, hash), invalid_value))

(***************************************************************************)
(* slru.c, the second implementation (lines 594-1076): no LRU list, each   *)
(* item carries the timestamp of its last insert or fetch and an eviction  *)
(* scans every chain for the smallest one.  Its functions have the names   *)
(* of the first implementation; here they are written slru2_...            *)
(***************************************************************************)
RECURSIVE slru_popcount(_)
\* the number of one bits of n
slru_popcount(n) == IF n = 0 THEN 0 ELSE (n % 2) + slru_popcount(n \div 2)

\* ~x & (x - 1): the bits below the lowest one bit of x, for 0 < x < 2^30
LowBitsMask(x) == SumOf([i \in 1..30 |-> (1 - Bit(x, i - 1)) * Bit(x - 1, i - 1) * 2^(i - 1)])

slru_ctz(x) == slru_popcount(LowBitsMask(x))

\* ++slru->timestamp, a uint32_t
U32Inc(x) == IF x = 2147483647 THEN -2147483647 - 1 ELSE x + 1

ZeroSlru2Item ==
    [key |-> NULL, bytes |-> << >>, key_length |-> 0, value |-> 0, consumption |-> 0,
     timestamp |-> 0, next |-> 0]

ZeroSlru2 ==
    [self |-> NULL, hash_table_ptr |-> NULL, items_ptr |-> NULL,
     hash_table |-> << >>, items |-> << >>, num_items |-> 0, hash_table_size |-> 0,
     seed |-> U32(0, 0, 0, 0), first_free |-> 0, timestamp |-> 0, cache_left |-> 0,
     debug_cache_size |-> 0, oob |-> FALSE]

\* consumed_total of the loop over the arena
ConsumedTotal(tt) == SumOf([i \in 1..tt.num_items |-> tt.items[i - 1].consumption])

\* SLRU_HC_TESTS is 1 in a build with assertions (lines 604-610): the loops
\* over the arena and the table are part of the check
slru2_check_internal_state(m) ==
    Asserting(m,
        /\ m.t.hash_table_size # 0
        /\ (m.t.first_free = UINT32_MAX \/ (m.t.first_free >= 0 /\ m.t.first_free < m.t.num_items))
        /\ \A i \in 0..(m.t.num_items - 1) :
              /\ ItemOk(m.t, i)
              /\ (m.t.items[i].next = UINT32_MAX
                    \/ (m.t.items[i].next >= 0 /\ m.t.items[i].next < m.t.num_items))
        /\ ConsumedTotal(m.t) + m.t.cache_left = m.t.debug_cache_size
        /\ \A b \in 0..(m.t.hash_table_size - 1) :
              BucketAt(m.t, b) = UINT32_MAX \/ (BucketAt(m.t, b) >= 0 /\ BucketAt(m.t, b) < m.t.num_items))

\* the walk of row b leaves the arena, or does not end
FaultyChain(tt, b) ==
    With(SlotsFrom(tt, BucketAt(tt, b), tt.num_items + 1), LAMBDA c :
      IF c = << >> THEN BucketAt(tt, b) # UINT32_MAX
      ELSE tt.items[c[Len(c)]].next # UINT32_MAX)

\* the items the scan of slru_free_one meets in row b, in the order it meets
\* them, each with the item before it in the chain
RowEntries(tt, b) ==
    With(SlotsFrom(tt, BucketAt(tt, b), tt.num_items + 1), LAMBDA c :
      [j \in 1..Len(c) |->
          [index |-> c[j], prev |-> IF j = 1 THEN UINT32_MAX ELSE c[j - 1], hash |-> b,
           timestamp |-> tt.items[c[j]].timestamp]])

RECURSIVE ScanRows(_, _)
ScanRows(tt, b) == IF b >= tt.hash_table_size THEN << >> ELSE RowEntries(tt, b) \o ScanRows(tt, b + 1)

NoneFound == [index |-> UINT32_MAX, prev |-> UINT32_MAX, hash |-> UINT32_MAX, timestamp |-> UINT32_MAX]

RECURSIVE MinScan(_, _)
\* if (item->timestamp < min_timestamp) { min_... = ...; } over the entries
MinScan(entries, min) ==
    IF entries = << >> THEN min
    ELSE MinScan(Tail(entries), IF ULt(Head(entries).timestamp, min.timestamp) THEN Head(entries) ELSE min)

\* slru_free_one from "assert(min_index < slru->num_items)" on
FreeOneUnlink(m, min, item) ==
    [free_func(evict_func(m, item.value), item.key)
       EXCEPT !.t.items = [i \in DOMAIN @ |->
                              IF i = min.index
                              THEN [@[i] EXCEPT !.key = NULL, !.bytes = << >>, !.next = m.t.first_free,
                                                !.consumption = 0]
                              ELSE IF i = min.prev THEN [@[i] EXCEPT !.next = item.next]
                              ELSE @[i]],
              !.t.hash_table = IF min.prev = UINT32_MAX THEN [@ EXCEPT ![min.hash] = item.next] ELSE @,
              !.t.first_free = min.index,
              !.t.cache_left = @ + item.consumption]

slru_free_one(m0) ==
    With(slru2_check_internal_state(m0), LAMBDA m :
      IF \E b \in 0..(m.t.hash_table_size - 1) : FaultyChain(m.t, b)
      THEN Ret(Crash(Asserting(m, FALSE), "segv"), SLRU_ERROR)
      ELSE With(MinScan(ScanRows(m.t, 0), NoneFound), LAMBDA min :
             IF min.index = UINT32_MAX THEN Ret(m, SLRU_ERROR)
             ELSE Ret(FreeOneUnlink(m, min, m.t.items[min.index]), SLRU_OK)))

slru_find_index_by_hash(tt, key, hash) == FindFrom(tt, key, BucketAt(tt, hash), tt.num_items + 1)

RECURSIVE Slru2DestroyItems(_, _)
\* for (i = 0; i < num_items; ++i) of slru_destroy, from index i on
Slru2DestroyItems(m, i) ==
    IF Faulted(m) \/ i >= m.t.num_items THEN m
    ELSE IF ~ItemOk(m.t, i) THEN Crash(m, "segv")
    ELSE IF m.t.items[i].consumption # 0
    THEN Slru2DestroyItems(evict_func(free_func(m, m.t.items[i].key), m.t.items[i].value), i + 1)
    ELSE Slru2DestroyItems(Asserting(m, m.t.items[i].key = NULL), i + 1)

slru2_destroy(m0) ==
    With(Slru2DestroyItems(slru2_check_internal_state(m0), 0), LAMBDA m2 :
      IF Faulted(m2) THEN Ret(m2, 0)
      ELSE Ret(free_func(free_func(free_func(m2, m2.t.items_ptr), m2.t.hash_table_ptr), m2.t.self), 0))

\* slru_destroy(slru); return NULL; of slru_create
Slru2FailCreate(m) == Ret([slru2_destroy(m).m EXCEPT !.t = ZeroSlru2], NULL)

\* slru_create from "if (num_initial_items != 0)" on
Slru2CreateItems(m, num_initial_items) ==
    IF num_initial_items = 0
    THEN Ret(slru2_check_internal_state([m EXCEPT !.t.first_free = UINT32_MAX]), m.t.self)
    ELSE With(malloc_func(m, ARENA_AT), LAMBDA a :
           IF a.ptr = NULL THEN Slru2FailCreate([a EXCEPT !.t.items_ptr = NULL])
           ELSE Ret(slru2_check_internal_state(
                      [a EXCEPT !.t.items_ptr = a.ptr,
                                !.t.items = RelinkAll(Arr(num_initial_items, ZeroSlru2Item),
                                                      num_initial_items),
                                !.t.num_items = num_initial_items,
                                !.t.first_free = 0]),
                    m.t.self))

slru2_create(m0, hash_table_size, num_initial_items, cache_size) ==
    With(malloc_func(Asserting(m0, hash_table_size # 0 /\ cache_size # 0), HANDLE_AT), LAMBDA a1 :
      IF a1.ptr = NULL THEN Ret([a1 EXCEPT !.t = ZeroSlru2], NULL)
      ELSE
    With(malloc_func([a1 EXCEPT !.t = [ZeroSlru2 EXCEPT !.self = a1.ptr, !.cache_left = cache_size,
                                                        !.debug_cache_size = cache_size]],
                     TABLE_AT), LAMBDA a2 :
      IF a2.ptr = NULL THEN Slru2FailCreate(a2)
      ELSE Slru2CreateItems([a2 EXCEPT !.t.hash_table_ptr = a2.ptr,
                                       !.t.hash_table = Arr(hash_table_size, UINT32_MAX),
                                       !.t.hash_table_size = hash_table_size],
                            num_initial_items)))

\* with num_items 0 the bound num_items - 1 of the last loop is UINT32_MAX and
\* items is null: the first store faults
slru2_remove_all(m0) ==
    With(SlruRemoveAllRows(slru2_check_internal_state(m0), 0), LAMBDA m2 :
      IF Faulted(m2) THEN Ret(m2, 0)
      ELSE IF m2.t.num_items = 0 \/ m2.t.items_ptr = NULL THEN Ret(Crash(m2, "segv"), 0)
      ELSE Ret([m2 EXCEPT !.t.hash_table = Arr(m2.t.hash_table_size, UINT32_MAX),
                          !.t.items = RelinkAll(Arr(m2.t.num_items, ZeroSlru2Item), m2.t.num_items),
                          !.t.first_free = 0],
               0))

RECURSIVE FreeUntilFits(_, _, _)
\* while (slru->cache_left < consumption) { if (slru_free_one(slru) != SLRU_OK) break; }
FreeUntilFits(m, consumption, fuel) ==
    IF Faulted(m) \/ ~ULt(m.t.cache_left, consumption) THEN m
    ELSE IF fuel = 0 THEN Crash(m, "hang")
    ELSE With(slru_free_one(m), LAMBDA r :
           IF r.ret # SLRU_OK THEN r.m ELSE FreeUntilFits(r.m, consumption, fuel - 1))

\* the growth of the arena in slru_insert: to 1 << slru_ctz(hash_table_size)
\* slots that nothing but their next fields is written to, or to twice the slots
Slru2InsertGrow(m) ==
    IF Faulted(m) \/ m.t.first_free # UINT32_MAX THEN Ret(m, SLRU_OK)
    ELSE
    With(malloc_func(IF m.t.num_items = 0 THEN m ELSE [m EXCEPT !.t.num_items = 2 * @],
                     IF m.t.items_ptr = ARENA_AT THEN ARENA_AT + 1 ELSE ARENA_AT), LAMBDA a :
      IF a.ptr = NULL
      THEN Ret([a EXCEPT !.t.items_ptr = NULL, !.t.items = << >>], SLRU_OOM)
      ELSE IF m.t.num_items = 0
      THEN Ret([a EXCEPT !.t.items_ptr = a.ptr,
                         !.t.items = RelinkAll([i \in 0..(2^slru_ctz(m.t.hash_table_size) - 1) |->
                                                   IF i < m.junk.from THEN ZeroSlru2Item
                                                   ELSE [ZeroSlru2Item EXCEPT !.key = m.junk.key,
                                                                              !.consumption = m.junk.value,
                                                                              !.timestamp = m.junk.value,
                                                                              !.value = m.junk.value]],
                                               2^slru_ctz(m.t.hash_table_size)),
                         !.t.num_items = 2^slru_ctz(m.t.hash_table_size),
                         !.t.first_free = 0],
               SLRU_OK)
      ELSE IF m.t.items_ptr = NULL THEN Ret(Crash(a, "segv"), SLRU_OK)
      ELSE Ret([free_func(a, m.t.items_ptr)
                  EXCEPT !.t.items_ptr = a.ptr,
                         !.t.items = [i \in 0..(2 * m.t.num_items - 1) |->
                                         IF i < m.t.num_items THEN m.t.items[i]
                                         ELSE [ZeroSlru2Item EXCEPT !.next =
                                                  IF i < 2 * m.t.num_items - 1 THEN i + 1
                                                  ELSE UINT32_MAX]],
                         !.t.first_free = m.t.num_items],
               SLRU_OK))

\* slru_insert from "uint32_t index = slru->first_free" on
Slru2InsertTake(m0, key, value, consumption, hash, index) ==
    With(Asserting(m0, ULt(index, m0.t.num_items)), LAMBDA m1 :
      IF Faulted(m1) THEN Ret(m1, SLRU_OK)
      ELSE IF ~ItemOk(m1.t, index) THEN Ret(Crash(m1, "segv"), SLRU_OK)
      ELSE
    With(malloc_func(Asserting(m1, m1.t.items[index].consumption = 0), KEY_AT + index), LAMBDA a :
      IF a.ptr = NULL THEN Ret([a EXCEPT !.t.items[index].key = NULL], SLRU_OOM)
      ELSE Ret([a EXCEPT !.t.items[index] = [key |-> a.ptr, bytes |-> key, key_length |-> Len(key),
                                             value |-> value, consumption |-> consumption,
                                             timestamp |-> U32Inc(a.t.timestamp),
                                             next |-> a.t.hash_table[hash]],
                         !.t.first_free = a.t.items[index].next,
                         !.t.hash_table[hash] = index,
                         !.t.timestamp = U32Inc(@)],
               SLRU_OK)))

\* slru_insert from "slru->cache_left -= consumption" on
Slru2InsertFitting(m, key, value, consumption, hash) ==
    With(Slru2InsertGrow(Walked(Asserting(m, slru_find_index_by_hash(m.t, key, hash) = UINT32_MAX),
                                key, hash)), LAMBDA g :
      IF Faulted(g.m) \/ g.ret # SLRU_OK THEN g
      ELSE Slru2InsertTake(g.m, key, value, consumption, hash, g.m.t.first_free))

slru2_insert(m0, key, value, consumption) ==
    With(FreeUntilFits(Asserting(slru2_check_internal_state(m0), Len(key) # 0 /\ consumption # 0),
                       consumption, m0.t.num_items + 1), LAMBDA m2 :
      IF Faulted(m2) THEN Ret(m2, SLRU_OK)
      ELSE IF ULt(m2.t.cache_left, consumption) THEN Ret(m2, SLRU_DOESNT_FIT)
      ELSE Slru2InsertFitting([m2 EXCEPT !.t.cache_left = @ - consumption], key, value, consumption,
                              slru_hash(key, m2.t.seed, m2.t.hash_table_size)))

\* slru_remove from "assert(index < slru->num_items)" on; item is items[index]
Slru2RemoveUnlink(m, hash, index, item, prev_index) ==
    With(IF prev_index = UINT32_MAX
         THEN [Asserting(m, m.t.hash_table[hash] = index) EXCEPT !.t.hash_table[hash] = item.next]
         ELSE [Asserting(m, m.t.items[prev_index].next = index)
                 EXCEPT !.t.items[prev_index].next = item.next], LAMBDA m1 :
      Ret([free_func(m1, item.key)
             EXCEPT !.t.items[index].next = m1.t.first_free,
                    !.t.first_free = index,
                    !.t.items[index].key = NULL,
                    !.t.items[index].bytes = << >>,
                    !.t.cache_left = @ + item.consumption,
                    !.t.items[index].consumption = 0],
          SLRU_OK))

Slru2RemoveFound(m1, hash, index) ==
    IF Faulted(m1) THEN Ret(m1, SLRU_OK)
    ELSE IF index = UINT32_MAX THEN Ret(m1, SLRU_NOT_FOUND)
    ELSE Slru2RemoveUnlink(Asserting(m1, ULt(index, m1.t.num_items)), hash, index, m1.t.items[index],
                           PrevInChain(m1.t, m1.t.hash_table[hash], index, UINT32_MAX, m1.t.num_items))

slru2_remove(m0, key) ==
    With(slru_hash(key, m0.t.seed, m0.t.hash_table_size), LAMBDA hash :
      Slru2RemoveFound(Walked(slru2_check_internal_state(m0), key, hash), hash,
                       slru_find_index_by_hash(m0.t, key, hash)))

Slru2FetchFound(m1, index, invalid_value) ==
    IF Faulted(m1) THEN Ret(m1, 0)
    ELSE IF index = UINT32_MAX THEN Ret(m1, invalid_value)
    ELSE Ret([m1 EXCEPT !.t.items[index].timestamp = U32Inc(m1.t.timestamp),
                        !.t.timestamp = U32Inc(@)],
             m1.t.items[index].value)

slru2_fetch(m0, key, invalid_value) ==
    With(slru_hash(key, m0.t.seed, m0.t.hash_table_size), LAMBDA hash :
      Slru2FetchFound(Walked(slru2_check_internal_state(m0), key, hash),
                      slru_find_index_by_hash(m0.t, key, hash), invalid_value))

\* slru_fetch of one key, called again and again until slru->timestamp is
\* stamp.  A call that finds the key stores the counter and the item's
\* timestamp (line 1057) and nothing else, and nothing a call does before
\* that store reads a timestamp: the calls after the first differ from it in
\* the value of the counter only.  A call that does not find the key leaves
\* the counter as it is.
slru2_fetch_until(m0, key, invalid_value, stamp) ==
    With(slru_find_index_by_hash(m0.t, key, slru_hash(key, m0.t.seed, m0.t.hash_table_size)),
         LAMBDA index :
    With(slru2_fetch(m0, key, invalid_value), LAMBDA r :
      IF Faulted(r.m) \/ index = UINT32_MAX THEN r
      ELSE Ret([r.m EXCEPT !.t.items[index].timestamp = stamp, !.t.timestamp = stamp], r.ret)))

(***************************************************************************)
(* The reference the tracker is compared with: a key -> value map and the  *)
(* list of non-empty buckets ordered by their most recent access.          *)
(***************************************************************************)
BucketOf(k) == hash_of(k, HASH_SEED, HASH_TABLE_SIZE)

Without(s, b) == SelectSeq(s, LAMBDA e : e # b)

Touched(s, b) == <<b>> \o Without(s, b)

RefInsert(mp, ord, k, v) == [map |-> [mp EXCEPT ![k] = v], order |-> Touched(ord, BucketOf(k))]

RefUse(mp, ord, k) ==
    [map |-> mp, order |-> IF mp[k] # INVALID_VALUE THEN Touched(ord, BucketOf(k)) ELSE ord]

RefRemove(mp, ord, k) ==
    LET mp1 == [mp EXCEPT ![k] = INVALID_VALUE]
    IN  [map |-> mp1,
         order |-> IF \E j \in Keys : mp1[j] # INVALID_VALUE /\ BucketOf(j) = BucketOf(k)
                   THEN ord ELSE Without(ord, BucketOf(k))]

RefRemoveLru(mp, ord) ==
    IF ord = << >> THEN [map |-> mp, order |-> ord]
    ELSE [map |-> [k \in Keys |-> IF BucketOf(k) = ord[Len(ord)] THEN INVALID_VALUE ELSE mp[k]],
          order |-> SubSeq(ord, 1, Len(ord) - 1)]

RefRemoveAll == [map |-> [k \in Keys |-> INVALID_VALUE], order |-> << >>]

(***************************************************************************)
(* The calls of a client program.                                          *)
(***************************************************************************)
\* the malloc_func calls of one create and of one insert, at most
CreateMallocs == 4
Create2Mallocs == 3
InsertMallocs == 2

\* which malloc_func call of a public call returns null: none (0), or the
\* first, the second, ..., while the run may see another failure
FailChoices(calls) == IF fail_budget > 0 THEN 0..calls ELSE {0}

\* malloc returned memory is read before it is written only when the arena is
\* first allocated by an insert
JunkChoices(tt) == IF tt.num_items = 0 /\ tt.first_free = UINT32_MAX THEN JunkPatterns ELSE {ZeroPattern}

\* The builds a call with result r is followed in.  FALSE is a build with
\* NDEBUG, which runs as r says.  TRUE is a build with assert: it runs the
\* same way unless the call goes past a false assert, where it stops instead;
\* it is followed apart only then, and only in a run that went past none before.
Builds(r) == IF r.m.passed /\ past_assert = 0 THEN BOOLEAN ELSE {FALSE}

\* assert() writes its message and calls abort()
Abort ==
    /\ fault' = "assert"
    /\ UNCHANGED <<t, slru, live, bad_free, owed, bad_evict, phase, fail_budget, past_assert, map, order>>

RECURSIVE Settle(_, _)
\* evict_func sees the values evs in turn: each must be owed, and is then owed no more
Settle(acc, evs) ==
    IF evs = << >> THEN acc
    ELSE IF Head(evs) \in DOMAIN acc.owed /\ acc.owed[Head(evs)] > 0
    THEN Settle([acc EXCEPT !.owed[Head(evs)] = @ - 1], Tail(evs))
    ELSE Settle([acc EXCEPT !.bad = TRUE], Tail(evs))

FaultOf(m) == IF m.fault # "none" THEN m.fault ELSE IF m.t.oob THEN "oob" ELSE "none"

Returned(r) == FaultOf(r.m) = "none"

\* what a call leaves behind that does not depend on which cache it was made
\* on; stored is the value the call put in the cache and released the value
\* it took out of it without evict_func (0 for none)
Observe(r, stored, released) ==
    /\ live' = r.m.live
    /\ bad_free' = r.m.bad_free
    /\ fault' = FaultOf(r.m)
    /\ owed' = [v \in DOMAIN owed |->
                   Settle([owed |-> owed, bad |-> bad_evict], r.m.evicted).owed[v]
                   + (IF v = stored THEN 1 ELSE 0) - (IF v = released THEN 1 ELSE 0)]
    /\ bad_evict' = Settle([owed |-> owed, bad |-> bad_evict], r.m.evicted).bad
    /\ fail_budget' = IF r.m.failAt # 0 /\ r.m.nmalloc >= r.m.failAt
                      THEN fail_budget - 1 ELSE fail_budget
    /\ past_assert' = IF past_assert > 0 \/ r.m.passed THEN past_assert + 1 ELSE 0

Alive == fault = "none" /\ past_assert <= MaxPastAssert

Running == phase = "live" /\ Alive

\* the step of a call on the tracker with result r: ref is what the
\* reference holds after it and ph the phase; a handle that was destroyed
\* is no more
TrackerStep(r, stored, ref, ph) ==
    \E dbg \in Builds(r) :
      IF dbg THEN Abort
      ELSE /\ Observe(r, stored, 0)
           /\ t' = IF ph = "destroyed" /\ Returned(r) THEN ZeroTracker ELSE r.m.t
           /\ map' = ref.map
           /\ order' = ref.order
           /\ phase' = ph
           /\ UNCHANGED slru

RefKeep == [map |-> map, order |-> order]

Create ==
    /\ phase = "none" /\ Alive
    /\ \E n \in 0..MaxInitialItems, failAt \in FailChoices(CreateMallocs) :
         With(lrutrack_create(Ctx(ZeroTracker, failAt, ZeroPattern, FALSE),
                              HASH_TABLE_SIZE, n, HASH_SEED, INVALID_VALUE), LAMBDA r :
           TrackerStep(r, 0, RefKeep, IF r.ret # NULL /\ Returned(r) THEN "live" ELSE "failed"))

Insert ==
    /\ Running
    /\ \E k \in Keys, failAt \in FailChoices(InsertMallocs), junk \in JunkChoices(t) :
       \E v \in ValuesFor(k) :
         /\ lrutrack_find_index(t, k, BucketOf(k)) = UINT32_MAX
         /\ With(lrutrack_insert(Ctx(t, failAt, junk, FALSE), k, v), LAMBDA r :
              IF Returned(r) /\ r.ret = LRUTRACK_OK
              THEN TrackerStep(r, v, RefInsert(map, order, k, v), phase)
              ELSE TrackerStep(r, 0, RefKeep, phase))

Remove ==
    /\ Running
    /\ \E k \in Keys :
         TrackerStep(lrutrack_remove(Ctx(t, 0, ZeroPattern, FALSE), k), 0,
                     RefRemove(map, order, k), phase)

Use ==
    /\ Running
    /\ \E k \in Keys :
         TrackerStep(lrutrack_use(Ctx(t, 0, ZeroPattern, FALSE), k), 0,
                     RefUse(map, order, k), phase)

RemoveLru ==
    /\ Running
    /\ TrackerStep(lrutrack_remove_lru(Ctx(t, 0, ZeroPattern, FALSE)), 0,
                   RefRemoveLru(map, order), phase)

RemoveAll ==
    /\ Running
    /\ TrackerStep(lrutrack_remove_all(Ctx(t, 0, ZeroPattern, FALSE)), 0, RefRemoveAll, phase)

Destroy ==
    /\ Running
    /\ TrackerStep(lrutrack_destroy(Ctx(t, 0, ZeroPattern, FALSE)), 0, RefKeep, "destroyed")

SlruRunning == phase = "slru" /\ Alive

\* the step of a call on the slru_t with result r
SlruStep(r, stored, released, ph) ==
    \E dbg \in Builds(r) :
      IF dbg THEN Abort
      ELSE /\ Observe(r, stored, released)
           /\ slru' = IF ph = "slru_destroyed" /\ Returned(r) THEN ZeroSlru ELSE r.m.t
           /\ phase' = ph
           /\ UNCHANGED <<t, map, order>>

\* the store of slru_evict_oldest that nothing guards happens only when a
\* bucket is evicted
WildChoices(consumption) == IF ULt(slru.cache_left, consumption) THEN BOOLEAN ELSE {FALSE}

SlruCreate ==
    /\ phase = "none" /\ Alive
    /\ \E n \in 0..MaxInitialItems, failAt \in FailChoices(CreateMallocs) :
         With(slru_create(Ctx(ZeroSlru, failAt, ZeroPattern, FALSE), HASH_TABLE_SIZE, n, CACHE_SIZE),
              LAMBDA r :
           SlruStep(r, 0, 0, IF r.ret # NULL /\ Returned(r) THEN "slru" ELSE "failed"))

SlruInsert ==
    /\ SlruRunning
    /\ \E k \in Keys, c \in Consumptions, failAt \in FailChoices(InsertMallocs), junk \in JunkChoices(slru) :
       \E wild \in WildChoices(c) :
         /\ slru_find_index(slru, k, slru_hash(k, slru.seed, slru.hash_table_size)) = UINT32_MAX
         /\ With(slru_insert(Ctx(slru, failAt, junk, wild), k, SlruValue(k), c), LAMBDA r :
              SlruStep(r, IF Returned(r) /\ r.ret = SLRU_OK THEN SlruValue(k) ELSE 0, 0, phase))

SlruRemove ==
    /\ SlruRunning
    /\ \E k \in Keys :
         With(slru_remove(Ctx(slru, 0, ZeroPattern, FALSE), k), LAMBDA r :
           SlruStep(r, 0, IF Returned(r) /\ r.ret = SLRU_OK THEN SlruValue(k) ELSE 0, phase))

SlruFetch ==
    /\ SlruRunning
    /\ \E k \in Keys :
         SlruStep(slru_fetch(Ctx(slru, 0, ZeroPattern, FALSE), k, INVALID_VALUE), 0, 0, phase)

SlruRemoveAll ==
    /\ SlruRunning
    /\ SlruStep(slru_remove_all(Ctx(slru, 0, ZeroPattern, FALSE)), 0, 0, phase)

SlruDestroy ==
    /\ SlruRunning
    /\ SlruStep(slru_destroy(Ctx(slru, 0, ZeroPattern, FALSE)), 0, 0, "slru_destroyed")

\* the calls on a cache of the second implementation; its handle is kept in
\* slru as well, no run has a cache of each
Slru2Running == phase = "v2" /\ Alive

\* the calls that advance the timestamp are followed up to MaxStamp of them
StampLeft == slru.timestamp < MaxStamp

Slru2Step(r, stored, released, ph) ==
    \E dbg \in Builds(r) :
      IF dbg THEN Abort
      ELSE /\ Observe(r, stored, released)
           /\ slru' = IF ph = "v2_destroyed" /\ Returned(r) THEN ZeroSlru2 ELSE r.m.t
           /\ phase' = ph
           /\ UNCHANGED <<t, map, order>>

Slru2Create ==
    /\ phase = "none" /\ Alive
    /\ \E n \in 0..MaxInitialItems, failAt \in FailChoices(Create2Mallocs) :
         With(slru2_create(Ctx(ZeroSlru2, failAt, ZeroPattern, FALSE), HASH_TABLE_SIZE, n, CACHE_SIZE),
              LAMBDA r :
           Slru2Step(r, 0, 0, IF r.ret # NULL /\ Returned(r) THEN "v2" ELSE "failed"))

Slru2Insert ==
    /\ Slru2Running /\ StampLeft
    /\ \E k \in Keys, c \in Consumptions, failAt \in FailChoices(InsertMallocs), junk \in JunkChoices(slru) :
         /\ slru_find_index_by_hash(slru, k, slru_hash(k, slru.seed, slru.hash_table_size)) = UINT32_MAX
         /\ With(slru2_insert(Ctx(slru, failAt, junk, FALSE), k, SlruValue(k), c), LAMBDA r :
              Slru2Step(r, IF Returned(r) /\ r.ret = SLRU_OK THEN SlruValue(k) ELSE 0, 0, phase))

Slru2Remove ==
    /\ Slru2Running
    /\ \E k \in Keys :
         With(slru2_remove(Ctx(slru, 0, ZeroPattern, FALSE), k), LAMBDA r :
           Slru2Step(r, 0, IF Returned(r) /\ r.ret = SLRU_OK THEN SlruValue(k) ELSE 0, phase))

Slru2Fetch ==
    /\ Slru2Running /\ StampLeft
    /\ \E k \in Keys :
         Slru2Step(slru2_fetch(Ctx(slru, 0, ZeroPattern, FALSE), k, INVALID_VALUE), 0, 0, phase)

Slru2RemoveAll ==
    /\ Slru2Running
    /\ Slru2Step(slru2_remove_all(Ctx(slru, 0, ZeroPattern, FALSE)), 0, 0, phase)

Slru2Destroy ==
    /\ Slru2Running
    /\ Slru2Step(slru2_destroy(Ctx(slru, 0, ZeroPattern, FALSE)), 0, 0, "v2_destroyed")

\* a slot of the arena holds a timestamp larger than the counter: the counter
\* has come round since the slot got it, or the slot holds what the block of
\* malloc_func held
CameRound(tt) == \E i \in 0..(tt.num_items - 1) : ULt(tt.timestamp, tt.items[i].timestamp)

\* a client that keeps the cache for long: the calls that advance the
\* timestamp are followed while the counter is below MaxLead and, the counter
\* being a uint32_t, in its last values until it has come round
EarlyOrLate == Slru2Running /\ slru.timestamp < MaxLead /\ ~CameRound(slru)

Slru2LongInsert == EarlyOrLate /\ Slru2Insert

Slru2LongFetch == EarlyOrLate /\ Slru2Fetch

\* it fetches a key it has stored until the counter is one short of its
\* largest value: 2^32 - 2 - slru->timestamp calls of slru_fetch
Slru2FetchLong ==
    /\ Slru2Running /\ slru.timestamp = MaxLead
    /\ \E k \in Keys :
         /\ slru_find_index_by_hash(slru, k, slru_hash(k, slru.seed, slru.hash_table_size)) # UINT32_MAX
         /\ Slru2Step(slru2_fetch_until(Ctx(slru, 0, ZeroPattern, FALSE), k, INVALID_VALUE, UINT32_MAX - 1),
                      0, 0, phase)

InitWith(budget) ==
    /\ t = ZeroTracker
    /\ slru = ZeroSlru
    /\ live = {}
    /\ bad_free = FALSE
    /\ owed = [v \in Values \cup {JunkValue} |-> 0]
    /\ bad_evict = FALSE
    /\ phase = "none"
    /\ fault = "none"
    /\ fail_budget = budget
    /\ past_assert = 0
    /\ map = [k \in Keys |-> INVALID_VALUE]
    /\ order = << >>

\* every malloc_func call succeeds
Init == InitWith(0)

\* up to MaxFailures calls of malloc_func return null
InitOOM == InitWith(MaxFailures)

NextTracker == Create \/ Insert \/ Remove \/ Use \/ RemoveLru \/ RemoveAll \/ Destroy

NextSlru == SlruCreate \/ SlruInsert \/ SlruRemove \/ SlruFetch \/ SlruRemoveAll \/ SlruDestroy

Next == NextTracker \/ NextSlru

Spec == Init /\ [][Next]_vars

SpecTracker == Init /\ [][NextTracker]_vars

SpecSlru == Init /\ [][NextSlru]_vars

SpecSlruOOM == InitOOM /\ [][NextSlru]_vars

SpecTrackerOOM == InitOOM /\ [][NextTracker]_vars

NextSlru2 == Slru2Create \/ Slru2Insert \/ Slru2Remove \/ Slru2Fetch \/ Slru2RemoveAll \/ Slru2Destroy

\* the second implementation alone, every allocation succeeding, and with
\* up to MaxFailures failures
SpecSlru2 == Init /\ [][NextSlru2]_vars

SpecSlru2OOM == InitOOM /\ [][NextSlru2]_vars

\* the second implementation with clients that keep it running long enough
\* for the 32-bit counter to come round
NextSlru2Long ==
    \/ Slru2Create \/ Slru2LongInsert \/ Slru2Remove \/ Slru2LongFetch \/ Slru2FetchLong
    \/ Slru2RemoveAll \/ Slru2Destroy

SpecSlru2Long == Init /\ [][NextSlru2Long]_vars

(***************************************************************************)
(* What the properties read off the structures.                            *)
(***************************************************************************)
RECURSIVE LinksFrom(_, _, _, _)
\* the buckets met from bucket i on along hash_table_lru_links[.. * 2 + off]
LinksFrom(tt, i, off, fuel) ==
    IF i = UINT32_MAX \/ fuel = 0 \/ i * 2 + off \notin DOMAIN tt.hash_table_lru_links THEN << >>
    ELSE <<i>> \o LinksFrom(tt, tt.hash_table_lru_links[i * 2 + off], off, fuel - 1)

\* the LRU list read from lru_head to lru_tail, and from lru_tail to lru_head
ListOf(tt) == LinksFrom(tt, tt.lru_head, 1, tt.hash_table_size + 1)
BackListOf(tt) == LinksFrom(tt, tt.lru_tail, 0, tt.hash_table_size + 1)

Reverse(s) == [i \in 1..Len(s) |-> s[Len(s) + 1 - i]]

\* the chain of bucket b, and the free list
ChainOf(tt, b) == SlotsFrom(tt, BucketAt(tt, b), tt.num_items + 1)
FreeList(tt) == SlotsFrom(tt, tt.first_free, tt.num_items + 1)

Range(s) == { s[i] : i \in DOMAIN s }

\* how often v is in the sequence s
Count(s, v) == Cardinality({ i \in DOMAIN s : s[i] = v })

\* the tracker holds k, and the value it holds under k
Present(tt, k) == lrutrack_find_index(tt, k, hash_of(k, tt.seed, tt.hash_table_size)) # UINT32_MAX
Stored(tt, k) == tt.items[lrutrack_find_index(tt, k, hash_of(k, tt.seed, tt.hash_table_size))].value

\* a call with result r came back, in every build this run is a run of
Came(r) == Returned(r) /\ (past_assert = 0 => ~r.m.passed)

TrackerLive == phase = "live" /\ fault = "none"
SlruLive == phase = "slru" /\ fault = "none"

\* the context of a call on the tracker, every allocation succeeding
Call == Ctx(t, 0, ZeroPattern, FALSE)

(***************************************************************************)
(* C1.  The tracker is a key->value map: whatever calls came before, each  *)
(* allocation succeeding, lrutrack_use(k) comes back with the value most   *)
(* recently inserted under k and not removed since (by remove, remove_lru  *)
(* or remove_all), and with invalid_value when there is none; keys of one  *)
(* bucket included.                                                        *)
(***************************************************************************)
UseGives(r, k) == Came(r) /\ r.ret = map[k]

C1_UseReturnsMap ==
    TrackerLive => \A k \in Keys : UseGives(lrutrack_use(Call, k), k)

\* "123" and "345" share a bucket, "123" behind "345" in its chain; "234" is
\* not stored
C1_Witness ==
    /\ TrackerLive
    /\ map[<<49, 50, 51>>] = 11 /\ map[<<51, 52, 53>>] = 30 /\ map[<<50, 51, 52>>] = INVALID_VALUE
    /\ Len(ChainOf(t, BucketOf(<<49, 50, 51>>))) = 2
    /\ t.items[t.hash_table[BucketOf(<<49, 50, 51>>)]].bytes = <<51, 52, 53>>
    /\ lrutrack_use(Call, <<49, 50, 51>>).ret = 11
    /\ lrutrack_use(Call, <<50, 51, 52>>).ret = INVALID_VALUE
(***************************************************************************)
(* C2.  After any sequence of public calls the LRU list of the tracker,    *)
(* read from lru_head to lru_tail (and back), is the non-empty buckets,    *)
(* the most recently accessed first, an access being an insert into the    *)
(* bucket or a lrutrack_use that hits in it.  A use that promotes the tail *)
(* bucket makes its predecessor the new lru_tail; a use when the list has  *)
(* one bucket changes nothing.                                             *)
(***************************************************************************)
NonEmpty(tt) == { b \in Buckets : BucketAt(tt, b) # UINT32_MAX }

PromotionOk(r, k) ==
    /\ Came(r)
    /\ ListOf(r.m.t) = Touched(order, BucketOf(k))
    /\ BackListOf(r.m.t) = Reverse(ListOf(r.m.t))
    /\ (BucketOf(k) = t.lru_tail /\ t.lru_head # t.lru_tail
          => r.m.t.lru_tail = LinkAt(t, t.lru_tail * 2 + 0) /\ r.m.t.lru_tail = order[Len(order) - 1])
    /\ (t.lru_head = t.lru_tail => r.m.t = t)

C2_LruListIsAccessOrder ==
    TrackerLive =>
        /\ ListOf(t) = order
        /\ BackListOf(t) = Reverse(order)
        /\ Range(ListOf(t)) = NonEmpty(t)
        /\ \A k \in Keys : Present(t, k) => PromotionOk(lrutrack_use(Call, k), k)

TailPromoted(r, k) == r.m.t.lru_head = BucketOf(k) /\ r.m.t.lru_tail = ListOf(t)[2]

\* three buckets are in the list and a key of the tail bucket is used
C2_Witness ==
    /\ TrackerLive
    /\ Len(ListOf(t)) = 3
    /\ \E k \in Keys : /\ Present(t, k) /\ BucketOf(k) = t.lru_tail
                       /\ TailPromoted(lrutrack_use(Call, k), k)
(***************************************************************************)
(* C3.  lrutrack_remove_lru on a tracker that is not empty returns         *)
(* LRUTRACK_OK; it removes every item of the lru_tail bucket and no item   *)
(* of another bucket; evict_fn is called once per removed item, with that  *)
(* item's value; the removed slots are on the free list; the bucket before *)
(* the tail in the LRU list is the new lru_tail, and lru_head and lru_tail *)
(* are both none when the tail was the only bucket.                        *)
(***************************************************************************)
ChainValues(tt, b) == [i \in 1..Len(ChainOf(tt, b)) |-> tt.items[ChainOf(tt, b)[i]].value]

SameBag(s, u) == Len(s) = Len(u) /\ \A v \in Range(s) : Count(s, v) = Count(u, v)

RemoveLruOk(r) ==
    /\ Came(r)
    /\ r.ret = LRUTRACK_OK
    /\ \A k \in Keys :
          IF BucketOf(k) = t.lru_tail THEN ~Present(r.m.t, k)
          ELSE /\ Present(r.m.t, k) = Present(t, k)
               /\ Present(t, k) => Stored(r.m.t, k) = Stored(t, k)
    /\ \A b \in Buckets \ {t.lru_tail} : ChainOf(r.m.t, b) = ChainOf(t, b)
    /\ ChainOf(r.m.t, t.lru_tail) = << >>
    /\ SameBag(r.m.evicted, ChainValues(t, t.lru_tail))
    /\ Range(ChainOf(t, t.lru_tail)) \subseteq Range(FreeList(r.m.t))
    /\ r.m.t.lru_tail = LinkAt(t, t.lru_tail * 2 + 0)
    /\ ListOf(r.m.t) = SubSeq(ListOf(t), 1, Len(ListOf(t)) - 1)
    /\ (t.lru_head = t.lru_tail => r.m.t.lru_head = UINT32_MAX /\ r.m.t.lru_tail = UINT32_MAX)

C3_RemoveLruEvictsTailBucket ==
    TrackerLive /\ t.lru_tail # UINT32_MAX => RemoveLruOk(lrutrack_remove_lru(Call))

TailBucketGone(r) ==
    /\ r.ret = LRUTRACK_OK
    /\ Len(r.m.evicted) = 2
    /\ r.m.t.lru_tail = ListOf(t)[1]
    /\ Len(FreeList(r.m.t)) >= 2

\* the tail bucket holds two keys and another bucket is before it in the list
C3_Witness ==
    /\ TrackerLive
    /\ Len(ListOf(t)) = 2
    /\ Len(ChainOf(t, t.lru_tail)) = 2
    /\ TailBucketGone(lrutrack_remove_lru(Call))
(***************************************************************************)
(* C4.  In SLRU v1, after any sequence of slru_insert, slru_remove,        *)
(* slru_fetch and slru_remove_all calls, whatever each call returned, the  *)
(* consumption of the items in use and cache_left add up to the cache_size *)
(* given to slru_create.                                                   *)
(***************************************************************************)

\* the consumption of the items on the chain of bucket b
ChainConsumption(tt, b) == SumOf([i \in 1..Len(ChainOf(tt, b)) |-> tt.items[ChainOf(tt, b)[i]].consumption])

InUseConsumption(tt) == SumOf([i \in 1..tt.hash_table_size |-> ChainConsumption(tt, i - 1)])

C4_BudgetIsConserved ==
    SlruLive /\ past_assert = 0 => InUseConsumption(slru) + slru.cache_left = CACHE_SIZE
(***************************************************************************)
(* C5.  In SLRU v1, slru_insert of an absent key whose consumption is at   *)
(* most cache_size, every allocation succeeding, stores the item and       *)
(* returns SLRU_OK: it evicts nothing when cache_left >= consumption, and  *)
(* otherwise evicts lru_tail buckets one at a time, stopping as soon as    *)
(* cache_left >= consumption, also when every non-empty bucket has to go.  *)
(***************************************************************************)
\* the context of a call on the cache, every allocation succeeding; wild is
\* what the store past the links array does
SlruCall(wild) == Ctx(slru, 0, ZeroPattern, wild)

SlruPresent(tt, k) == slru_find_index(tt, k, slru_hash(k, tt.seed, tt.hash_table_size)) # UINT32_MAX

RECURSIVE TailsToEvict(_, _, _)
\* how many buckets, from the tail of the list on, make room for consumption
TailsToEvict(tt, list, consumption) ==
    IF list = << >> \/ ~ULt(tt.cache_left, consumption) THEN 0
    ELSE 1 + TailsToEvict([tt EXCEPT !.cache_left = @ + ChainConsumption(tt, list[Len(list)])],
                          SubSeq(list, 1, Len(list) - 1), consumption)

InsertStores(r, k, consumption) ==
    /\ Came(r)
    /\ r.ret = SLRU_OK
    /\ SlruPresent(r.m.t, k)
    /\ ListOf(r.m.t) = Touched(SubSeq(ListOf(slru), 1,
                                      Len(ListOf(slru)) - TailsToEvict(slru, ListOf(slru), consumption)),
                               slru_hash(k, slru.seed, slru.hash_table_size))
    /\ (~ULt(slru.cache_left, consumption) => r.m.evicted = << >>)

C5_InsertThatFitsStores ==
    SlruLive /\ past_assert = 0 =>
        \A k \in Keys, consumption \in Consumptions, wild \in BOOLEAN :
            ~SlruPresent(slru, k) /\ consumption <= CACHE_SIZE
                => InsertStores(slru_insert(SlruCall(wild), k, SlruValue(k), consumption), k, consumption)

(***************************************************************************)
(* C6.  In SLRU v1, slru_insert with consumption > cache_size returns      *)
(* SLRU_DOESNT_FIT after evicting every stored item, evict_func called     *)
(* once per item; on return the cache is empty: cache_left is cache_size,  *)
(* the LRU list is empty and every arena slot is on the free list.         *)
(***************************************************************************)
StoredValues(tt) ==
    { tt.items[i].value : i \in UNION { Range(ChainOf(tt, b)) : b \in Buckets } }

InsertDoesntFit(r) ==
    /\ Came(r)
    /\ r.ret = SLRU_DOESNT_FIT
    /\ Range(r.m.evicted) = StoredValues(slru)
    /\ Len(r.m.evicted) = slru.num_items_in_use
    /\ r.m.t.cache_left = CACHE_SIZE
    /\ r.m.t.lru_head = UINT32_MAX /\ r.m.t.lru_tail = UINT32_MAX
    /\ Len(FreeList(r.m.t)) = r.m.t.num_items

C6_TooLargeDoesntFit ==
    SlruLive /\ past_assert = 0 =>
        \A k \in Keys, wild \in BOOLEAN :
            ~SlruPresent(slru, k)
                => InsertDoesntFit(slru_insert(SlruCall(wild), k, SlruValue(k), CACHE_SIZE + 1))
(***************************************************************************)
(* C7.  For the tracker and for SLRU v1: after create, any sequence of     *)
(* public operations, every allocation succeeding, and destroy, every      *)
(* block malloc_func gave has been passed to free_func exactly once, and   *)
(* free_func never got a non-null pointer that was not a live block of     *)
(* malloc_func: no leak, no double free, no foreign free, for every        *)
(* num_initial_items >= 0.                                                 *)
(***************************************************************************)
Destroyed == phase \in {"destroyed", "slru_destroyed"} /\ fault = "none" /\ past_assert = 0

C7_DestroyReleasesEveryBlock == Destroyed => live = {} /\ ~bad_free

(***************************************************************************)
(* C8.  In the tracker, over any sequence of public operations that ends   *)
(* with lrutrack_destroy, every value a successful lrutrack_insert stored  *)
(* is passed to evict_fn exactly once, and evict_fn is never called with a *)
(* value that is not stored at that moment.                                *)
(***************************************************************************)
C8_EveryValueEvictedOnce ==
    phase = "destroyed" /\ fault = "none" /\ past_assert = 0
        => ~bad_evict /\ \A v \in DOMAIN owed : owed[v] = 0
(***************************************************************************)
(* C9.  lrutrack_remove of a present key returns LRUTRACK_OK, calls        *)
(* evict_fn exactly once, with the value stored under the key, puts the    *)
(* item's slot on the free list, and leaves every other key of the same    *)
(* bucket chain, before or after the removed item, present with its value. *)
(***************************************************************************)
IndexOf(tt, k) == lrutrack_find_index(tt, k, hash_of(k, tt.seed, tt.hash_table_size))

RemoveOk(r, k) ==
    /\ Came(r)
    /\ r.ret = LRUTRACK_OK
    /\ r.m.evicted = <<Stored(t, k)>>
    /\ ~Present(r.m.t, k)
    /\ r.m.t.first_free = IndexOf(t, k)
    /\ FreeList(r.m.t) = <<IndexOf(t, k)>> \o FreeList(t)
    /\ \A j \in Keys \ {k} :
          /\ Present(r.m.t, j) = Present(t, j)
          /\ Present(t, j) => Stored(r.m.t, j) = Stored(t, j)
    /\ \A b \in Buckets \ {BucketOf(k)} : ChainOf(r.m.t, b) = ChainOf(t, b)
    /\ ChainOf(r.m.t, BucketOf(k)) = SelectSeq(ChainOf(t, BucketOf(k)), LAMBDA i : i # IndexOf(t, k))

C9_RemoveOfPresentKey ==
    TrackerLive => \A k \in Keys : Present(t, k) => RemoveOk(lrutrack_remove(Call, k), k)

OneEvicted(r) == r.ret = LRUTRACK_OK /\ Len(r.m.evicted) = 1

\* a chain holds two keys and the second item of the chain is removed
C9_Witness ==
    /\ TrackerLive
    /\ \E k \in Keys :
          /\ Len(ChainOf(t, BucketOf(k))) = 2
          /\ ChainOf(t, BucketOf(k))[2] = IndexOf(t, k)
          /\ OneEvicted(lrutrack_remove(Call, k))
          /\ Len(ChainOf(lrutrack_remove(Call, k).m.t, BucketOf(k))) = 1
(***************************************************************************)
(* C10.  lrutrack_remove, and slru_remove of SLRU v1, of a key that is not *)
(* present returns NOT_FOUND, calls neither evict_fn nor malloc_func nor   *)
(* free_func, and leaves the bucket table, the chains, the LRU links,      *)
(* lru_head and lru_tail, the free list and (SLRU) cache_left as they were.*)
(***************************************************************************)
NotFoundLeaves(r, before, code) ==
    /\ Came(r)
    /\ r.ret = code
    /\ r.m.evicted = << >> /\ r.m.nmalloc = 0 /\ r.m.nfree = 0
    /\ r.m.t = before

TrackerRemoveOfAbsentKey ==
    TrackerLive => \A k \in Keys :
        ~Present(t, k) => NotFoundLeaves(lrutrack_remove(Call, k), t, LRUTRACK_NOT_FOUND)

SlruRemoveOfAbsentKey ==
    SlruLive => \A k \in Keys :
        ~SlruPresent(slru, k) => NotFoundLeaves(slru_remove(SlruCall(FALSE), k), slru, SLRU_NOT_FOUND)

C10_RemoveOfAbsentKey == TrackerRemoveOfAbsentKey /\ SlruRemoveOfAbsentKey
(***************************************************************************)
(* C11.  A lookup that misses changes nothing: lrutrack_use of an absent   *)
(* key returns the tracker's invalid_value, slru_fetch of an absent key    *)
(* returns the invalid_value passed to the call, and the whole state of    *)
(* the cache (chains, LRU order, free list, cache_left) is as before, so   *)
(* the same miss again gives the same result.                              *)
(***************************************************************************)
\* a sentinel of slru_fetch that is no stored value
FetchSentinels == { INVALID_VALUE, JunkValue }

MissLeaves(r, before, sentinel) ==
    /\ Came(r)
    /\ r.ret = sentinel
    /\ r.m.evicted = << >> /\ r.m.nmalloc = 0 /\ r.m.nfree = 0
    /\ r.m.t = before

UseOfAbsentKey ==
    TrackerLive => \A k \in Keys :
        ~Present(t, k) => MissLeaves(lrutrack_use(Call, k), t, t.invalid_value)

FetchOfAbsentKey ==
    SlruLive => \A k \in Keys, sentinel \in FetchSentinels :
        ~SlruPresent(slru, k) => MissLeaves(slru_fetch(SlruCall(FALSE), k, sentinel), slru, sentinel)

C11_MissChangesNothing == UseOfAbsentKey /\ FetchOfAbsentKey
(***************************************************************************)
(* C12.  lrutrack_remove_lru on a tracker that holds no item returns       *)
(* LRUTRACK_NOT_FOUND, calls no callback and changes no state, on a        *)
(* tracker just created and on one that remove, remove_lru and remove_all  *)
(* have emptied.                                                           *)
(***************************************************************************)
C12_RemoveLruOfEmptyTracker ==
    TrackerLive /\ NonEmpty(t) = {}
        => NotFoundLeaves(lrutrack_remove_lru(Call), t, LRUTRACK_NOT_FOUND)

\* the arena has grown, so that items were stored, and none is left
C12_Witness ==
    /\ TrackerLive
    /\ NonEmpty(t) = {}
    /\ t.num_items > MaxInitialItems
    /\ lrutrack_remove_lru(Call).ret = LRUTRACK_NOT_FOUND
(***************************************************************************)
(* C13.  After lrutrack_remove_all returns, in every reachable state, also *)
(* on a tracker whose arena has no slot yet: the free list holds every     *)
(* arena slot exactly once (and is empty when there is no slot), every     *)
(* bucket is empty, the LRU list is empty (lru_head and lru_tail none),    *)
(* evict_fn was called exactly once for each stored value, and a           *)
(* lrutrack_insert that follows succeeds.                                  *)
(***************************************************************************)
EverySlotFree(tt) ==
    /\ Len(FreeList(tt)) = tt.num_items
    /\ Range(FreeList(tt)) = 0..(tt.num_items - 1)
    /\ (tt.num_items = 0 => tt.first_free = UINT32_MAX)

Emptied(tt) ==
    /\ NonEmpty(tt) = {}
    /\ tt.lru_head = UINT32_MAX /\ tt.lru_tail = UINT32_MAX
    /\ \A i \in DOMAIN tt.hash_table_lru_links : tt.hash_table_lru_links[i] = UINT32_MAX

InsertStored(r, k, v) ==
    /\ Returned(r) /\ ~r.m.passed
    /\ r.ret = LRUTRACK_OK
    /\ Present(r.m.t, k) /\ Stored(r.m.t, k) = v

RemoveAllOk(r) ==
    /\ Came(r)
    /\ EverySlotFree(r.m.t)
    /\ Emptied(r.m.t)
    /\ Len(r.m.evicted) = Cardinality({ k \in Keys : Present(t, k) })
    /\ \A k \in Keys : Present(t, k) => Count(r.m.evicted, Stored(t, k)) = 1
    /\ \A k \in Keys :
          InsertStored(lrutrack_insert(Ctx(r.m.t, 0, ZeroPattern, FALSE), k, 10 * (k[1] - 48)),
                       k, 10 * (k[1] - 48))

C13_RemoveAllEmptiesTracker ==
    TrackerLive /\ past_assert = 0 => RemoveAllOk(lrutrack_remove_all(Call))
(***************************************************************************)
(* C14.  After slru_remove_all of SLRU v1 returns, in every reachable      *)
(* state, also on a cache whose arena has no slot yet: the free list holds *)
(* every arena slot exactly once, every bucket is empty, the LRU list is   *)
(* empty (lru_head and lru_tail none), cache_left is cache_size, and the   *)
(* inserts and evictions that follow work on a list of non-empty buckets   *)
(* only.                                                                   *)
(***************************************************************************)
ListedAlone(r, k) ==
    /\ Returned(r) /\ ~r.m.passed
    /\ r.ret = SLRU_OK
    /\ ListOf(r.m.t) = <<slru_hash(k, r.m.t.seed, r.m.t.hash_table_size)>>
    /\ NonEmpty(r.m.t) = Range(ListOf(r.m.t))

SlruRemoveAllOk(r) ==
    /\ Came(r)
    /\ EverySlotFree(r.m.t)
    /\ Emptied(r.m.t)
    /\ r.m.t.cache_left = CACHE_SIZE
    /\ \A k \in Keys :
          ListedAlone(slru_insert(Ctx(r.m.t, 0, ZeroPattern, FALSE), k, SlruValue(k), 1), k)

C14_SlruRemoveAllEmptiesCache ==
    SlruLive /\ past_assert = 0 => SlruRemoveAllOk(slru_remove_all(SlruCall(FALSE)))
(***************************************************************************)
(* C15.  The round trip of the tracker: for a key k that is not stored,    *)
(* lrutrack_insert(k, v) followed by lrutrack_remove(k) leaves a tracker   *)
(* in which lrutrack_use(k) comes back with invalid_value, whose stored    *)
(* keys and values are those from before the insert, and whose LRU list    *)
(* holds the bucket of k only if that bucket held other items.             *)
(***************************************************************************)
SameStored(after, before) ==
    \A j \in Keys :
       /\ Present(after, j) = Present(before, j)
       /\ Present(before, j) => Stored(after, j) = Stored(before, j)

RoundTripOk(r, k) ==
    /\ Came(r)
    /\ r.ret = LRUTRACK_OK
    /\ lrutrack_use(Ctx(r.m.t, 0, ZeroPattern, FALSE), k).ret = t.invalid_value
    /\ SameStored(r.m.t, t)
    /\ BucketOf(k) \in Range(ListOf(r.m.t)) <=> BucketOf(k) \in NonEmpty(t)

\* the remove that follows an insert with result r
RoundTrip(r, k) ==
    Came(r) /\ r.ret = LRUTRACK_OK => RoundTripOk(lrutrack_remove(r.m, k), k)

C15_InsertThenRemove ==
    TrackerLive =>
       \A k \in Keys, junk \in JunkChoices(t) :
          ~Present(t, k) =>
             \A v \in ValuesFor(k) : RoundTrip(lrutrack_insert(Ctx(t, 0, junk, FALSE), k, v), k)

C15_Witness ==
    /\ TrackerLive /\ past_assert = 0
    /\ Present(t, <<49, 50, 51>>) /\ ~Present(t, <<51, 52, 53>>)
    /\ BucketOf(<<49, 50, 51>>) = BucketOf(<<51, 52, 53>>)
    /\ lrutrack_remove(lrutrack_insert(Call, <<51, 52, 53>>, 30).m, <<51, 52, 53>>).ret = LRUTRACK_OK
    /\ lrutrack_remove(lrutrack_insert(Call, <<50, 51, 52>>, 20).m, <<50, 51, 52>>).ret = LRUTRACK_OK
(***************************************************************************)
(* C16.  lrutrack_remove of a key whose bucket holds at least one other    *)
(* item afterwards leaves lru_head, lru_tail and every LRU link as they    *)
(* were, the removed item being the head of the chain or further down.     *)
(***************************************************************************)
SharesBucket(tt, k) ==
    \E j \in Keys \ {k} : Present(tt, j) /\ BucketOf(j) = BucketOf(k)

LruKept(r) ==
    /\ Came(r)
    /\ r.ret = LRUTRACK_OK
    /\ r.m.t.lru_head = t.lru_head
    /\ r.m.t.lru_tail = t.lru_tail
    /\ r.m.t.hash_table_lru_links = t.hash_table_lru_links

C16_RemoveFromSharedBucketKeepsLru ==
    TrackerLive =>
       \A k \in Keys :
          Present(t, k) /\ SharesBucket(t, k) => LruKept(lrutrack_remove(Call, k))

\* the tracker holds "123" and "345" in one chain, in a list of two buckets
\* whose head is another bucket; the chain head and the item after it are
\* each removed
C16_Witness ==
    /\ TrackerLive /\ past_assert = 0
    /\ Present(t, <<49, 50, 51>>) /\ Present(t, <<51, 52, 53>>)
    /\ BucketOf(<<49, 50, 51>>) = BucketOf(<<51, 52, 53>>)
    /\ t.lru_head # t.lru_tail /\ t.lru_tail = BucketOf(<<49, 50, 51>>)
    /\ t.hash_table[BucketOf(<<49, 50, 51>>)] = IndexOf(t, <<51, 52, 53>>)
    /\ LruKept(lrutrack_remove(Call, <<51, 52, 53>>))
    /\ LruKept(lrutrack_remove(Call, <<49, 50, 51>>))
(***************************************************************************)
(* C17.  When the allocation of the larger arena fails in lrutrack_insert, *)
(* the call comes back with LRUTRACK_OOM and the tracker is as before the  *)
(* call: the items pointer, num_items, the free list, the stored keys and  *)
(* values and the LRU list are unchanged, the old arena is still owned by  *)
(* the tracker, and the calls that follow, lrutrack_destroy among them,    *)
(* work.                                                                   *)
(***************************************************************************)
\* the tracker has no free slot: the next insert allocates an arena first
ArenaFull(tt) == tt.first_free = UINT32_MAX

\* lrutrack_destroy after the call with result r releases every block
DestroyReleases(r) ==
    /\ Came(r)
    /\ r.m.live = {}
    /\ ~r.m.bad_free

GrowthOomLeaves(r) ==
    /\ Came(r)
    /\ r.ret = LRUTRACK_OOM
    /\ r.m.t = t
    /\ r.m.live = live
    /\ r.m.evicted = << >>
    /\ DestroyReleases(lrutrack_destroy([r.m EXCEPT !.failAt = 0]))

C17_ArenaGrowthOomLeavesTracker ==
    TrackerLive /\ ArenaFull(t) =>
       \A k \in Keys :
          ~Present(t, k) =>
             \A v \in ValuesFor(k) : GrowthOomLeaves(lrutrack_insert(Ctx(t, 1, ZeroPattern, FALSE), k, v))
(***************************************************************************)
(* C18.  When the allocation of the key bytes fails in lrutrack_insert,    *)
(* the call comes back with LRUTRACK_OOM, the slot it selected is still on *)
(* the free list with the free sentinel as its value, and the chains, the  *)
(* stored keys and the LRU list are as before: no slot is leaked.          *)
(***************************************************************************)
\* which malloc_func call of an insert on tt asks for the key bytes
KeyMalloc(tt) == IF ArenaFull(tt) THEN 2 ELSE 1

ChainSlots(tt) == UNION { Range(ChainOf(tt, b)) : b \in Buckets }

KeyOomLeaves(r) ==
    /\ Came(r)
    /\ r.ret = LRUTRACK_OOM
    /\ r.m.t.first_free \in DOMAIN r.m.t.items
    /\ r.m.t.items[r.m.t.first_free].value = r.m.t.invalid_value
    /\ Len(FreeList(r.m.t)) + Cardinality(ChainSlots(r.m.t)) = r.m.t.num_items
    /\ Range(FreeList(r.m.t)) \cup ChainSlots(r.m.t) = DOMAIN r.m.t.items
    /\ r.m.t.hash_table = t.hash_table
    /\ SameStored(r.m.t, t)
    /\ r.m.t.lru_head = t.lru_head
    /\ r.m.t.lru_tail = t.lru_tail
    /\ r.m.t.hash_table_lru_links = t.hash_table_lru_links
    /\ r.m.evicted = << >>

C18_KeyOomLeavesSlotFree ==
    TrackerLive =>
       \A k \in Keys, junk \in JunkChoices(t) :
          ~Present(t, k) =>
             \A v \in ValuesFor(k) : KeyOomLeaves(lrutrack_insert(Ctx(t, KeyMalloc(t), junk, FALSE), k, v))
(***************************************************************************)
(* C19.  When slru_insert of SLRU v1 comes back with SLRU_OOM, the arena   *)
(* growth or the key bytes having failed, the client sees the cache as     *)
(* before the call: cache_left is unchanged, no stored item was evicted    *)
(* and evict_func was not called.                                          *)
(***************************************************************************)
SameSlruStored(after, before) ==
    \A j \in Keys :
       /\ SlruPresent(after, j) = SlruPresent(before, j)

OomLeavesCache(r) ==
    Returned(r) /\ r.ret = SLRU_OOM =>
       /\ r.m.t.cache_left = slru.cache_left
       /\ r.m.evicted = << >>
       /\ SameSlruStored(r.m.t, slru)

C19_SlruInsertOomLeavesCache ==
    SlruLive =>
       \A k \in Keys, c \in Consumptions, failAt \in 1..2 :
          ~SlruPresent(slru, k) =>
             OomLeavesCache(slru_insert(Ctx(slru, failAt, ZeroPattern, FALSE), k, SlruValue(k), c))
(***************************************************************************)
(* C20.  lrutrack_create comes back with null whenever one of its          *)
(* allocations (the handle, the bucket table, the LRU link array, the      *)
(* initial arena) fails; every block it had obtained has then been         *)
(* released through free_func, and its cleanup goes past no false          *)
(* assertion and makes no access out of range.                             *)
(***************************************************************************)
\* a create asked for n initial items makes the failAt-th allocation
Allocates(n, failAt) == failAt \in 1..(IF n = 0 THEN CreateMallocs - 1 ELSE CreateMallocs)

FailedCreateCleansUp(r) ==
    /\ Came(r)
    /\ r.ret = NULL
    /\ r.m.live = live
    /\ ~r.m.bad_free
    /\ r.m.nfree >= r.m.nmalloc - 1
    /\ r.m.evicted = << >>

C20_CreateFailureCleansUp ==
    phase = "none" /\ fault = "none" =>
       \A n \in 0..MaxInitialItems, failAt \in 1..CreateMallocs :
          Allocates(n, failAt) =>
             FailedCreateCleansUp(lrutrack_create(Ctx(ZeroTracker, failAt, ZeroPattern, FALSE),
                                                  HASH_TABLE_SIZE, n, HASH_SEED, INVALID_VALUE))
(***************************************************************************)
(* C21.  lrutrack_destroy calls evict_fn for the slots in use in ascending *)
(* order of their arena index, whatever the LRU order is and in whatever   *)
(* order the keys were inserted.                                           *)
(***************************************************************************)
\* the arena slots that hold a stored item, lowest index first
SlotsInUse(tt) ==
    SelectSeq([i \in 1..tt.num_items |-> i - 1], LAMBDA i : i \in ChainSlots(tt))

ValuesAt(tt, slots) == [j \in 1..Len(slots) |-> tt.items[slots[j]].value]

\* the calls of evict_fn in r that are for a stored value
EvictedStored(r) == SelectSeq(r.m.evicted, LAMBDA v : v \in StoredValues(t))

DestroyInArenaOrder(r) ==
    /\ Returned(r)
    /\ EvictedStored(r) = ValuesAt(t, SlotsInUse(t))

C21_DestroyEvictsInArenaOrder ==
    TrackerLive => DestroyInArenaOrder(lrutrack_destroy(Call))

\* three stored items in slots 0, 1, 2 whose buckets are in the LRU list in
\* the order slot 1, slot 0, slot 2
C21_Witness ==
    /\ TrackerLive /\ past_assert = 0
    /\ Len(ListOf(t)) = 3
    /\ t.hash_table[ListOf(t)[1]] = 1
    /\ t.hash_table[ListOf(t)[2]] = 0
    /\ t.hash_table[ListOf(t)[3]] = 2
    /\ Cardinality(ChainSlots(t)) = 3
    /\ Len(lrutrack_destroy(Call).m.evicted) = 3
    /\ DestroyInArenaOrder(lrutrack_destroy(Call))
(***************************************************************************)
(* C23.  In the tracker, after every public operation returns, the buckets *)
(* reached from lru_head along the next links are each non-empty bucket    *)
(* exactly once and no empty bucket, for any sequence of insert, remove,   *)
(* use, remove_lru and remove_all.                                         *)
(***************************************************************************)
C23_ListIsTheNonEmptyBuckets ==
    TrackerLive =>
       /\ Range(ListOf(t)) = NonEmpty(t)
       /\ Len(ListOf(t)) = Cardinality(NonEmpty(t))

\* two buckets are listed, and a slot below a slot in use is free: an item
\* was removed
C23_Witness ==
    /\ TrackerLive /\ past_assert = 0
    /\ Len(ListOf(t)) = 2
    /\ \E b \in Buckets : b \notin NonEmpty(t)
    /\ FreeList(t) # << >>
    /\ \E i \in ChainSlots(t) : FreeList(t)[1] < i

(***************************************************************************)
(* C25.  In the tracker the LRU links are always consistent: lru_head is   *)
(* none exactly when lru_tail is none; the prev link of lru_head and the   *)
(* next link of lru_tail are none; for every bucket b of the list with     *)
(* next link n, the prev link of n is b; both links of every empty bucket  *)
(* are none.                                                               *)
(***************************************************************************)
C25_LruLinksConsistent ==
    TrackerLive =>
       /\ t.lru_head = UINT32_MAX <=> t.lru_tail = UINT32_MAX
       /\ t.lru_head # UINT32_MAX => LinkAt(t, t.lru_head * 2 + 0) = UINT32_MAX
       /\ t.lru_tail # UINT32_MAX => LinkAt(t, t.lru_tail * 2 + 1) = UINT32_MAX
       /\ \A b \in Range(ListOf(t)) :
             LinkAt(t, b * 2 + 1) # UINT32_MAX => LinkAt(t, LinkAt(t, b * 2 + 1) * 2 + 0) = b
       /\ \A b \in Buckets \ NonEmpty(t) :
             LinkAt(t, b * 2 + 0) = UINT32_MAX /\ LinkAt(t, b * 2 + 1) = UINT32_MAX

\* three buckets are listed, the bucket of "234" between the other two, and
\* the remove of "234" empties it: its links are none and its neighbours are
\* linked to each other
C25_Witness ==
    /\ TrackerLive /\ past_assert = 0
    /\ Len(ListOf(t)) = 3
    /\ ListOf(t)[2] = BucketOf(<<50, 51, 52>>)
    /\ LinkAt(lrutrack_remove(Call, <<50, 51, 52>>).m.t, BucketOf(<<50, 51, 52>>) * 2 + 0) = UINT32_MAX
    /\ LinkAt(lrutrack_remove(Call, <<50, 51, 52>>).m.t, BucketOf(<<50, 51, 52>>) * 2 + 1) = UINT32_MAX
    /\ ListOf(lrutrack_remove(Call, <<50, 51, 52>>).m.t) = <<ListOf(t)[1], ListOf(t)[3]>>
    /\ BackListOf(lrutrack_remove(Call, <<50, 51, 52>>).m.t) = <<ListOf(t)[3], ListOf(t)[1]>>

(***************************************************************************)
(* C24.  In SLRU v1, after any sequence of slru_insert, slru_remove and    *)
(* slru_fetch, the LRU list is a well-formed doubly linked list of exactly *)
(* the non-empty buckets: read from lru_head by the next links and from    *)
(* lru_tail by the prev links it is the same buckets in opposite order.    *)
(* In particular this holds after slru_remove empties a bucket that is     *)
(* neither lru_head nor lru_tail, and the buckets that stay keep their     *)
(* order.  Stated as: each of the three calls, made on a cache whose list  *)
(* is well formed, leaves a cache whose list is well formed.               *)
(***************************************************************************)
WellFormedList(tt) ==
    /\ Range(ListOf(tt)) = NonEmpty(tt)
    /\ Len(ListOf(tt)) = Cardinality(NonEmpty(tt))
    /\ BackListOf(tt) = Reverse(ListOf(tt))

SlruBucketOf(k) == slru_hash(k, slru.seed, slru.hash_table_size)

KeepsList(r) == Came(r) /\ WellFormedList(r.m.t)

RemoveKeepsOrder(r, k) ==
    /\ KeepsList(r)
    /\ ListOf(r.m.t) = IF SlruBucketOf(k) \in NonEmpty(r.m.t) THEN ListOf(slru)
                       ELSE Without(ListOf(slru), SlruBucketOf(k))

SlruRemoveKeepsList ==
    \A k \in Keys : SlruPresent(slru, k) => RemoveKeepsOrder(slru_remove(SlruCall(FALSE), k), k)

SlruFetchKeepsList ==
    \A k \in Keys : KeepsList(slru_fetch(SlruCall(FALSE), k, INVALID_VALUE))

SlruInsertKeepsList ==
    \A k \in Keys :
       ~SlruPresent(slru, k) => KeepsList(slru_insert(SlruCall(FALSE), k, SlruValue(k), 1))

C24_SlruListStaysWellFormed ==
    SlruLive /\ past_assert = 0 /\ WellFormedList(slru) =>
       SlruRemoveKeepsList /\ SlruFetchKeepsList /\ SlruInsertKeepsList

(***************************************************************************)
(* C26.  In the tracker, after every public operation, whatever            *)
(* num_initial_items was (0 included, where the first insert allocates the *)
(* arena), the slots reached from first_free are exactly the arena slots   *)
(* whose value is invalid_value, and each of them has a null key.          *)
(***************************************************************************)
SentinelSlots(tt) == { i \in DOMAIN tt.items : tt.items[i].value = tt.invalid_value }

C26_FreeListIsTheSentinelSlots ==
    TrackerLive =>
       /\ t.first_free = UINT32_MAX \/ ItemOk(t, t.first_free)
       /\ Range(FreeList(t)) = SentinelSlots(t)
       /\ \A i \in SentinelSlots(t) : t.items[i].key = NULL

(***************************************************************************)
(* C27.  In the tracker, after every public operation, every arena slot    *)
(* index in 0..num_items-1 is in exactly one place: once on the free list  *)
(* or once in exactly one bucket chain; no chain and no free list has a    *)
(* cycle or an index >= num_items.                                         *)
(***************************************************************************)
InArena(tt, i) == i = UINT32_MAX \/ (i >= 0 /\ i < tt.num_items)

ChainLengths(tt) == [b \in 1..tt.hash_table_size |-> Len(ChainOf(tt, b - 1))]

C27_EverySlotInOnePlace ==
    TrackerLive =>
       /\ InArena(t, t.first_free)
       /\ \A b \in Buckets : InArena(t, BucketAt(t, b))
       /\ \A i \in DOMAIN t.items : InArena(t, t.items[i].next)
       /\ Range(FreeList(t)) \cup ChainSlots(t) = 0..(t.num_items - 1)
       /\ Len(FreeList(t)) + SumOf(ChainLengths(t)) = t.num_items

(***************************************************************************)
(* C28.  On a tracker created with num_initial_items = 0 the first         *)
(* lrutrack_insert allocates an arena of exactly hash_table_size slots,    *)
(* returns LRUTRACK_OK, stores the item in slot 0 and leaves the slots     *)
(* 1..hash_table_size-1 on the free list in ascending order.               *)
(***************************************************************************)
\* the tracker as lrutrack_create(.., 0, ..) leaves it
CreatedEmpty(tt) == tt.num_items = 0 /\ tt.first_free = UINT32_MAX /\ tt.items_ptr = NULL

FirstInsertOk(r, k, v) ==
    /\ Came(r)
    /\ r.ret = LRUTRACK_OK
    /\ r.m.nmalloc = 2
    /\ r.m.t.num_items = r.m.t.hash_table_size
    /\ DOMAIN r.m.t.items = 0..(r.m.t.hash_table_size - 1)
    /\ IndexOf(r.m.t, k) = 0
    /\ r.m.t.items[0].value = v
    /\ FreeList(r.m.t) = [i \in 1..(r.m.t.hash_table_size - 1) |-> i]

C28_FirstInsertAllocatesArena ==
    TrackerLive /\ CreatedEmpty(t) =>
       \A k \in Keys, junk \in JunkChoices(t) :
          \A v \in ValuesFor(k) : FirstInsertOk(lrutrack_insert(Ctx(t, 0, junk, FALSE), k, v), k, v)

(***************************************************************************)
(* C29.  When lrutrack_insert finds the free list empty and the arena has  *)
(* n > 0 slots, the arena gets exactly 2n slots, every item stored before  *)
(* keeps its arena index, key, value and chain successor, the new slots    *)
(* n..2n-1 are the free list in ascending order, and the inserted item     *)
(* takes slot n.                                                           *)
(***************************************************************************)
\* slot i of the grown arena holds what it held before
SlotKept(after, before, i) ==
    /\ after.items[i].key = before.items[i].key
    /\ after.items[i].bytes = before.items[i].bytes
    /\ after.items[i].key_length = before.items[i].key_length
    /\ after.items[i].value = before.items[i].value
    /\ after.items[i].next = before.items[i].next

DoublingOk(r, k, v) ==
    /\ Came(r)
    /\ r.ret = LRUTRACK_OK
    /\ r.m.t.num_items = 2 * t.num_items
    /\ DOMAIN r.m.t.items = 0..(2 * t.num_items - 1)
    /\ \A i \in 0..(t.num_items - 1) : SlotKept(r.m.t, t, i)
    /\ \A j \in Keys : Present(t, j) => IndexOf(r.m.t, j) = IndexOf(t, j)
    /\ IndexOf(r.m.t, k) = t.num_items
    /\ r.m.t.items[t.num_items].value = v
    /\ FreeList(r.m.t) = [i \in 1..(t.num_items - 1) |-> t.num_items + i]
    /\ r.m.live \ {r.m.t.items[t.num_items].key} = (live \ {t.items_ptr}) \cup {r.m.t.items_ptr}

C29_GrowthDoublesArena ==
    TrackerLive /\ ArenaFull(t) /\ t.num_items > 0 =>
       \A k \in Keys :
          ~Present(t, k) =>
             \A v \in ValuesFor(k) : DoublingOk(lrutrack_insert(Call, k, v), k, v)

\* an arena of two slots, both in use in one chain, doubles to four
C29_Witness ==
    /\ TrackerLive /\ past_assert = 0
    /\ ArenaFull(t) /\ t.num_items = 2
    /\ Present(t, <<49, 50, 51>>) /\ Present(t, <<51, 52, 53>>)
    /\ DoublingOk(lrutrack_insert(Call, <<50, 51, 52>>, 20), <<50, 51, 52>>, 20)

(***************************************************************************)
(* C30.  Right after a successful lrutrack_create with num_initial_items   *)
(* = n, for every n >= 0 and in particular for n = 0 and n = 1, the free   *)
(* list is the slots 0, 1, ..., n-1 in this order and ends in none         *)
(* (first_free is none when n = 0), every slot holds invalid_value, every  *)
(* bucket is empty and the LRU list is empty.                              *)
(***************************************************************************)
\* the num_initial_items a create is checked with
CreateSizes == 0..(MaxInitialItems + 2)

CreatedOk(r, n) ==
    /\ Came(r)
    /\ r.ret # NULL
    /\ r.m.t.num_items = n
    /\ DOMAIN r.m.t.items = 0..(n - 1)
    /\ FreeList(r.m.t) = [i \in 1..n |-> i - 1]
    /\ n = 0 => r.m.t.first_free = UINT32_MAX
    /\ n > 0 => r.m.t.first_free = 0 /\ r.m.t.items[n - 1].next = UINT32_MAX
    /\ \A i \in 0..(n - 1) : r.m.t.items[i].value = r.m.t.invalid_value
    /\ Emptied(r.m.t)
    /\ ListOf(r.m.t) = << >>

CreateOf(n) ==
    lrutrack_create(Ctx(ZeroTracker, 0, ZeroPattern, FALSE), HASH_TABLE_SIZE, n, HASH_SEED, INVALID_VALUE)

C30_CreateLeavesFreeArena ==
    phase = "none" /\ fault = "none" => \A n \in CreateSizes : CreatedOk(CreateOf(n), n)

\* the call is made with n = 0, 1 and 3, and a tracker is returned
C30_Witness ==
    /\ phase = "none" /\ fault = "none"
    /\ CreateOf(0).ret # NULL /\ CreateOf(0).m.t.first_free = UINT32_MAX
    /\ CreateOf(1).ret # NULL /\ FreeList(CreateOf(1).m.t) = <<0>>
    /\ CreateOf(3).ret # NULL /\ FreeList(CreateOf(3).m.t) = <<0, 1, 2>>

(***************************************************************************)
(* C22.  In SLRU v2 no public operation ever returns SLRU_ERROR: the       *)
(* SLRU_ERROR that slru_free_one returns when nothing is left to evict     *)
(* only ends the eviction loop, and slru_insert then returns               *)
(* SLRU_DOESNT_FIT, every item evicted and cache_left equal to cache_size. *)
(***************************************************************************)
Slru2Live == phase = "v2" /\ fault = "none"

Slru2Call == Ctx(slru, 0, ZeroPattern, FALSE)

Slru2Present(tt, k) ==
    slru_find_index_by_hash(tt, k, slru_hash(k, tt.seed, tt.hash_table_size)) # UINT32_MAX

NeverError(r) == Returned(r) => r.ret # SLRU_ERROR

\* slru_free_one on a cache that holds nothing
NothingToEvict(r) ==
    /\ Returned(r) => r.ret = SLRU_ERROR /\ r.m.t = slru
    /\ r.m.evicted = << >>

DoesntFitEmptied(r) ==
    Returned(r) /\ r.ret = SLRU_DOESNT_FIT =>
       /\ StoredValues(r.m.t) = {}
       /\ Range(r.m.evicted) = StoredValues(slru)
       /\ Len(r.m.evicted) = Cardinality(StoredValues(slru))
       /\ r.m.t.cache_left = CACHE_SIZE

InsertNeverError(r, consumption) ==
    /\ NeverError(r)
    /\ DoesntFitEmptied(r)
    /\ Returned(r) /\ consumption > CACHE_SIZE => r.ret = SLRU_DOESNT_FIT

C22_ErrorStaysInside ==
    Slru2Live =>
       /\ StoredValues(slru) = {} => NothingToEvict(slru_free_one(Slru2Call))
       /\ \A k \in Keys : NeverError(slru2_remove(Slru2Call, k))
       /\ \A k \in Keys, c \in Consumptions :
             ~Slru2Present(slru, k) => InsertNeverError(slru2_insert(Slru2Call, k, SlruValue(k), c), c)
(***************************************************************************)
(* C31.  Every call of SLRU v1 slru_insert returns: its eviction loop runs *)
(* at most once per non-empty bucket, each iteration strictly increases    *)
(* cache_left, and the loop is left when cache_left >= consumption or when *)
(* no bucket remains in the LRU list.                                      *)
(***************************************************************************)
RECURSIVE EvictRun(_, _, _)
\* the contexts at the head of the loop of EvictUntilFits, the first being
\* the one the loop is entered with and the last the one it is left with
EvictRun(m, consumption, fuel) ==
    IF Faulted(m) \/ ~ULt(m.t.cache_left, consumption) \/ fuel = 0 THEN <<m>>
    ELSE <<m>> \o EvictRun(slru_evict_oldest(m), consumption, fuel - 1)

\* run is left in its last context, without a fault, after at most one
\* iteration per non-empty bucket, each of which gained budget
LoopEnds(run, consumption) ==
    /\ ~Faulted(run[Len(run)])
    /\ Len(run) - 1 <= Cardinality(NonEmpty(run[1].t))
    /\ \A i \in 1..(Len(run) - 1) : ULt(run[i].t.cache_left, run[i + 1].t.cache_left)
    /\ \/ ~ULt(run[Len(run)].t.cache_left, consumption)
       \/ run[Len(run)].t.lru_tail = UINT32_MAX

InsertReturns(r, run, consumption) ==
    /\ Returned(r)
    /\ LoopEnds(run, consumption)

C31_InsertEvictionLoopEnds ==
    SlruLive =>
        \A k \in Keys, consumption \in Consumptions, wild \in BOOLEAN :
            ~SlruPresent(slru, k)
                => InsertReturns(slru_insert(SlruCall(wild), k, SlruValue(k), consumption),
                                 EvictRun(SlruCall(wild), consumption, 2 * slru.hash_table_size + 2),
                                 consumption)
(***************************************************************************)
(* C32.  In SLRU v2, each automatic eviction step of slru_insert removes   *)
(* exactly one item, namely the stored item whose timestamp is smallest,   *)
(* which (while the timestamp counter has not wrapped) is the item least   *)
(* recently inserted or fetched; items sharing its bucket are kept.        *)
(***************************************************************************)
\* the stored items as the scan of slru_free_one meets them: slot, row,
\* timestamp, key and value
Slru2Stored(tt) ==
    [i \in 1..Len(ScanRows(tt, 0)) |->
        [index |-> ScanRows(tt, 0)[i].index, hash |-> ScanRows(tt, 0)[i].hash,
         timestamp |-> ScanRows(tt, 0)[i].timestamp,
         bytes |-> tt.items[ScanRows(tt, 0)[i].index].bytes,
         value |-> tt.items[ScanRows(tt, 0)[i].index].value]]

\* s without its i-th element
Dropped(s, i) == [j \in 1..(Len(s) - 1) |-> IF j < i THEN s[j] ELSE s[j + 1]]

\* the i-th of the items es has the smallest timestamp
Oldest(es, i) == \A j \in 1..Len(es) : j # i => ULt(es[i].timestamp, es[j].timestamp)

RECURSIVE FreeSteps(_, _, _)
\* the contexts the loop of FreeUntilFits calls slru_free_one with
FreeSteps(m, consumption, fuel) ==
    IF Faulted(m) \/ ~ULt(m.t.cache_left, consumption) \/ fuel = 0 THEN << >>
    ELSE With(slru_free_one(m), LAMBDA r :
           IF r.ret # SLRU_OK THEN <<m>> ELSE <<m>> \o FreeSteps(r.m, consumption, fuel - 1))

\* the step r of slru_free_one on the context a, which stores the items es:
\* the oldest of them is given to evict_func and the others stay as they are
EvictsOldest(a, es, r) ==
    es # << >> =>
        /\ Returned(r)
        /\ r.ret = SLRU_OK
        /\ \E i \in 1..Len(es) :
             /\ Oldest(es, i)
             /\ Slru2Stored(r.m.t) = Dropped(es, i)
             /\ r.m.evicted = a.evicted \o <<es[i].value>>

EveryStepEvictsOldest(steps) ==
    \A i \in 1..Len(steps) : EvictsOldest(steps[i], Slru2Stored(steps[i].t), slru_free_one(steps[i]))

\* the counter has not come round: no stored item has a timestamp larger than
\* the counter, and the next timestamp is not 0
NotWrapped(tt) ==
    /\ tt.timestamp # UINT32_MAX
    /\ \A i \in 1..Len(ScanRows(tt, 0)) : ~ULt(tt.timestamp, ScanRows(tt, 0)[i].timestamp)

\* after the call r the item in slot index is the one used last: its
\* timestamp is the largest, and the other stored items have the timestamps
\* they had (index none: every stored item has)
UsedLast(r, index) ==
    Returned(r) =>
        \A i \in 1..Len(ScanRows(r.m.t, 0)) :
            ScanRows(r.m.t, 0)[i].index # index =>
                /\ index # UINT32_MAX
                      => ULt(ScanRows(r.m.t, 0)[i].timestamp, r.m.t.items[index].timestamp)
                /\ ScanRows(r.m.t, 0)[i].timestamp = slru.items[ScanRows(r.m.t, 0)[i].index].timestamp

\* the slot of key k after the call r that returned SLRU_OK, none otherwise
SlotAfter(r, k) ==
    IF Returned(r) /\ r.ret = SLRU_OK
    THEN slru_find_index_by_hash(r.m.t, k, slru_hash(k, r.m.t.seed, r.m.t.hash_table_size))
    ELSE UINT32_MAX

TimestampsFollowUse ==
    \A k \in Keys :
        IF Slru2Present(slru, k)
        THEN /\ UsedLast(slru2_fetch(Slru2Call, k, INVALID_VALUE),
                         slru_find_index_by_hash(slru, k, slru_hash(k, slru.seed, slru.hash_table_size)))
             /\ UsedLast(slru2_remove(Slru2Call, k), UINT32_MAX)
        ELSE \A c \in Consumptions :
                UsedLast(slru2_insert(Slru2Call, k, SlruValue(k), c),
                         SlotAfter(slru2_insert(Slru2Call, k, SlruValue(k), c), k))

C32_EvictionTakesOldest ==
    Slru2Live =>
        /\ \A c \in Consumptions : EveryStepEvictsOldest(FreeSteps(Slru2Call, c, slru.num_items + 1))
        /\ NotWrapped(slru) => TimestampsFollowUse
(***************************************************************************)
(* C36.  In SLRU v2, the timestamp given to an item by a later slru_insert *)
(* or slru_fetch is strictly greater than every timestamp assigned         *)
(* earlier, so comparing timestamps always gives the true recency order;   *)
(* the counter is a uint32_t incremented modulo 2^32 on every insert and   *)
(* fetch.                                                                  *)
(***************************************************************************)
\* the call r gave the item in slot index a timestamp larger than the ones
\* given before it: than the counter before the call, which is the last one
\* given, and than the one of every other stored item
StampedLater(r, index) ==
    Returned(r) /\ index # UINT32_MAX =>
        /\ ULt(slru.timestamp, r.m.t.items[index].timestamp)
        /\ r.m.t.timestamp = r.m.t.items[index].timestamp
        /\ \A i \in 1..Len(ScanRows(r.m.t, 0)) :
              ScanRows(r.m.t, 0)[i].index # index
                  => ULt(ScanRows(r.m.t, 0)[i].timestamp, r.m.t.items[index].timestamp)

C36_TimestampsIncrease ==
    Slru2Live =>
        \A k \in Keys :
            IF Slru2Present(slru, k)
            THEN StampedLater(slru2_fetch(Slru2Call, k, INVALID_VALUE),
                              slru_find_index_by_hash(slru, k, slru_hash(k, slru.seed, slru.hash_table_size)))
            ELSE \A c \in Consumptions :
                    StampedLater(slru2_insert(Slru2Call, k, SlruValue(k), c),
                                 SlotAfter(slru2_insert(Slru2Call, k, SlruValue(k), c), k))
(***************************************************************************)
(* C33.  In SLRU v1, evict_func is called exactly once for each item that  *)
(* leaves the cache through an automatic eviction in slru_insert, through  *)
(* slru_remove_all or through slru_destroy, and is not called at all by    *)
(* slru_remove of a present key, which only returns the item's consumption *)
(* to cache_left and releases its slot.                                    *)
(***************************************************************************)
\* the call r gave evict_func the values gone, each once, and no other
EvictedOnce(r, gone) ==
    Returned(r) =>
        /\ Range(r.m.evicted) = gone
        /\ Len(r.m.evicted) = Cardinality(gone)

\* the call r of slru_remove took the item in slot index out of the cache
\* and did not call evict_func
RemovedQuietly(r, index) ==
    Returned(r) =>
        /\ r.ret = SLRU_OK
        /\ r.m.evicted = << >>
        /\ r.m.t.cache_left = slru.cache_left + slru.items[index].consumption
        /\ r.m.t.first_free = index
        /\ r.m.t.items[index].consumption = 0
        /\ StoredValues(r.m.t) = StoredValues(slru) \ {slru.items[index].value}

\* slru_insert gives evict_func the items that are stored before it and not
\* after it
InsertEvictsTheLeaving(r) == EvictedOnce(r, StoredValues(slru) \ StoredValues(r.m.t))

C33_EvictFuncOncePerLeavingItem ==
    SlruLive =>
        /\ EvictedOnce(slru_remove_all(SlruCall(FALSE)), StoredValues(slru))
        /\ EvictedOnce(slru_destroy(SlruCall(FALSE)), StoredValues(slru))
        /\ \A k \in Keys :
              IF SlruPresent(slru, k)
              THEN RemovedQuietly(slru_remove(SlruCall(FALSE), k),
                                  slru_find_index(slru, k, slru_hash(k, slru.seed, slru.hash_table_size)))
              ELSE \A c \in Consumptions, wild \in BOOLEAN :
                      InsertEvictsTheLeaving(slru_insert(SlruCall(wild), k, SlruValue(k), c))
(***************************************************************************)
(* C34.  In SLRU v1, cache_left never exceeds cache_size, and the          *)
(* subtraction cache_left -= consumption in slru_insert and every addition *)
(* cache_left += consumption are executed only when the 32-bit unsigned    *)
(* result neither underflows nor overflows.                                *)
(***************************************************************************)
\* a value of cache_left that is in 0..cache_size: a uint32_t that went
\* below 0 or past UINT32_MAX is not
InBudget(cache_left) == cache_left >= 0 /\ cache_left <= CACHE_SIZE

\* the loop of slru_insert only adds to cache_left, within the budget
AddsInBudget(run) ==
    /\ \A i \in 1..Len(run) : InBudget(run[i].t.cache_left)
    /\ \A i \in 1..(Len(run) - 1) : run[i].t.cache_left <= run[i + 1].t.cache_left

\* what the call r leaves in cache_left, before being that much or more
LeavesInBudget(r, before) ==
    /\ InBudget(r.m.t.cache_left)
    /\ before <= r.m.t.cache_left

\* slru_insert: the loop adds, and the subtraction that follows takes
\* consumption from what the loop left, or nothing
InsertInBudget(r, run, consumption) ==
    /\ AddsInBudget(run)
    /\ InBudget(r.m.t.cache_left)
    /\ r.m.t.cache_left \in { run[Len(run)].t.cache_left, run[Len(run)].t.cache_left - consumption }

C34_CacheLeftStaysInRange ==
    SlruLive =>
        /\ InBudget(slru.cache_left)
        /\ LeavesInBudget(slru_remove_all(SlruCall(FALSE)), slru.cache_left)
        /\ \A k \in Keys :
              IF SlruPresent(slru, k)
              THEN LeavesInBudget(slru_remove(SlruCall(FALSE), k), slru.cache_left)
              ELSE \A c \in Consumptions, wild \in BOOLEAN, failAt \in 0..InsertMallocs,
                      junk \in JunkChoices(slru) :
                      InsertInBudget(slru_insert(Ctx(slru, failAt, junk, wild), k, SlruValue(k), c),
                                     EvictRun(Ctx(slru, failAt, junk, wild), c,
                                              2 * slru.hash_table_size + 2),
                                     c)

\* the cache is full, and an insert evicts a bucket to store its item
C34_Witness ==
    /\ SlruLive /\ past_assert = 0
    /\ slru.cache_left = 0
    /\ \E k \in Keys :
          /\ ~SlruPresent(slru, k)
          /\ Came(slru_insert(SlruCall(FALSE), k, SlruValue(k), 1))
          /\ slru_insert(SlruCall(FALSE), k, SlruValue(k), 1).ret = SLRU_OK
          /\ slru_insert(SlruCall(FALSE), k, SlruValue(k), 1).m.evicted # << >>
          /\ slru_insert(SlruCall(FALSE), k, SlruValue(k), 1).m.t.cache_left \in 0..(CACHE_SIZE - 1)
(***************************************************************************)
(* C35.  No assertion in the LRU-Tracker fails, and no array is indexed    *)
(* out of range, for any sequence of public operations that respects the   *)
(* documented preconditions (power-of-two table size, non-null non-empty   *)
(* key, value != invalid_value, key not already present on insert), for    *)
(* any num_initial_items >= 0 and with all allocations succeeding.         *)
(***************************************************************************)
\* the call r ran to its end without a false assertion and without a load
\* or store outside an array
RanClean(r) == Returned(r) /\ ~r.m.passed

\* the tracker has been reached by calls that all ran clean
ReachedClean == TrackerLive /\ past_assert = 0

C35_TrackerCallsRunClean ==
    /\ phase = "none" /\ fault = "none" => \A n \in CreateSizes : RanClean(CreateOf(n))
    /\ ReachedClean =>
          /\ RanClean(lrutrack_remove_lru(Call))
          /\ RanClean(lrutrack_remove_all(Call))
          /\ RanClean(lrutrack_destroy(Call))
          /\ \A k \in Keys :
                /\ RanClean(lrutrack_use(Call, k))
                /\ RanClean(lrutrack_remove(Call, k))
                /\ ~Present(t, k) =>
                      \A v \in ValuesFor(k), junk \in JunkChoices(t) :
                          RanClean(lrutrack_insert(Ctx(t, 0, junk, FALSE), k, v))

====
